---- MODULE Spec2Model ----
(***************************************************************************)
(* Interview session progression and insight pipeline of the customer-     *)
(* interview tool: the InterviewPage component (src/src/pages/             *)
(* Interview.tsx), the ai-interviewer edge function (src/unnamed/part_002) *)
(* and the process-interview-insights edge function, together with the     *)
(* hosted tables they read and write (interviews, conversations,           *)
(* insights).  Every await of the handlers is a step boundary; a store     *)
(* call resolves with data or with an error object (supabase-js never      *)
(* throws), a functions.invoke resolves with data or with a function       *)
(* error.  The second part models the Analytics page                       *)
(* (src/unnamed/part_001): its authentication effect, the fetch of the     *)
(* insights rows and processDataForDisplay, the aggregation it shows.      *)
(* The third part models the Dashboard page's fetchData and projects tab   *)
(* (src/src/pages/Dashboard.tsx:84-561) and the fourth the billing webhook *)
(* (src/src/pages/Dashboard.tsx:786-926).                                  *)
(***************************************************************************)
EXTENDS Integers, Sequences, FiniteSets, TLC

(***************************************************************************)
(* Bounds of the exploration.                                              *)
(***************************************************************************)
MaxGenFailures == 1
MaxAppendErrors == 3
\* failed generation calls in the exploration of long conversations
MaxChatFailures == 5

(***************************************************************************)
(* Texts.  A text is a string; Chars gives its characters so that trim,    *)
(* toLowerCase and includes are computed character by character.           *)
(***************************************************************************)
EmptyText == ""
BlankText == " "
TypedReply == " ok "
ReplyText == "ok"
RawFollowUp == "Go on "
FollowUp == "Go on"
RawClosing == "Thank You For Your Time!"
EdgeFallback == "I'm not sure how to respond to that. Could you tell me more?"
ClientFallback == "Sorry, I had a glitch. Could you repeat that?"
ApologyText == "I seem to be having some trouble connecting. Please try again in a moment."
GuideQuestion == "What is hardest about planning meals?"
OpeningLine == "Hi there! I'm Founder, and I'm working on a new idea: Meal planner. Thanks for taking the time to chat! Could you start by telling me a bit about your experiences related to this?"
ClosingPhrase == "thank you for your time"

Chars(s) ==
  CASE s = EmptyText ->
       <<>>
    [] s = BlankText ->
       <<" ">>
    [] s = TypedReply ->
       <<" ","o","k"," ">>
    [] s = ReplyText ->
       <<"o","k">>
    [] s = RawFollowUp ->
       <<"G","o"," ","o","n"," ">>
    [] s = FollowUp ->
       <<"G","o"," ","o","n">>
    [] s = RawClosing ->
       <<"T","h","a","n","k"," ","Y","o","u"," ","F","o","r"," ","Y","o","u","r",
         " ","T","i","m","e","!">>
    [] s = EdgeFallback ->
       <<"I","'","m"," ","n","o","t"," ","s","u","r","e"," ","h","o","w"," ","t",
         "o"," ","r","e","s","p","o","n","d"," ","t","o"," ","t","h","a","t",".",
         " ","C","o","u","l","d"," ","y","o","u"," ","t","e","l","l"," ","m","e",
         " ","m","o","r","e","?">>
    [] s = ClientFallback ->
       <<"S","o","r","r","y",","," ","I"," ","h","a","d"," ","a"," ","g","l","i",
         "t","c","h","."," ","C","o","u","l","d"," ","y","o","u"," ","r","e","p",
         "e","a","t"," ","t","h","a","t","?">>
    [] s = ApologyText ->
       <<"I"," ","s","e","e","m"," ","t","o"," ","b","e"," ","h","a","v","i","n",
         "g"," ","s","o","m","e"," ","t","r","o","u","b","l","e"," ","c","o","n",
         "n","e","c","t","i","n","g","."," ","P","l","e","a","s","e"," ","t","r",
         "y"," ","a","g","a","i","n"," ","i","n"," ","a"," ","m","o","m","e","n",
         "t",".">>
    [] s = GuideQuestion ->
       <<"W","h","a","t"," ","i","s"," ","h","a","r","d","e","s","t"," ","a","b",
         "o","u","t"," ","p","l","a","n","n","i","n","g"," ","m","e","a","l","s",
         "?">>
    [] s = OpeningLine ->
       <<"H","i"," ","t","h","e","r","e","!"," ","I","'","m"," ","F","o","u","n",
         "d","e","r",","," ","a","n","d"," ","I","'","m"," ","w","o","r","k","i",
         "n","g"," ","o","n"," ","a"," ","n","e","w"," ","i","d","e","a",":"," ",
         "M","e","a","l"," ","p","l","a","n","n","e","r","."," ","T","h","a","n",
         "k","s"," ","f","o","r"," ","t","a","k","i","n","g"," ","t","h","e"," ",
         "t","i","m","e"," ","t","o"," ","c","h","a","t","!"," ","C","o","u","l",
         "d"," ","y","o","u"," ","s","t","a","r","t"," ","b","y"," ","t","e","l",
         "l","i","n","g"," ","m","e"," ","a"," ","b","i","t"," ","a","b","o","u",
         "t"," ","y","o","u","r"," ","e","x","p","e","r","i","e","n","c","e","s",
         " ","r","e","l","a","t","e","d"," ","t","o"," ","t","h","i","s","?">>
    [] s = ClosingPhrase ->
       <<"t","h","a","n","k"," ","y","o","u"," ","f","o","r"," ","y","o","u","r",
         " ","t","i","m","e">>

Texts ==
  {EmptyText, BlankText, TypedReply, ReplyText, RawFollowUp, FollowUp,
   RawClosing, EdgeFallback, ClientFallback, ApologyText, GuideQuestion,
   OpeningLine, ClosingPhrase}

FromChars(cs) == CHOOSE t \in Texts : Chars(t) = cs

UpperCaseLetters ==
  <<"A","B","C","D","E","F","G","H","I","J","K","L","M",
    "N","O","P","Q","R","S","T","U","V","W","X","Y","Z">>

LowerCaseLetters ==
  <<"a","b","c","d","e","f","g","h","i","j","k","l","m",
    "n","o","p","q","r","s","t","u","v","w","x","y","z">>

ToLowerChar(c) ==
  IF \E i \in 1..26 : UpperCaseLetters[i] = c
    THEN LowerCaseLetters[CHOOSE i \in 1..26 : UpperCaseLetters[i] = c]
    ELSE c

\* String.prototype.toLowerCase, on the characters of a text
toLowerCase(cs) == [i \in 1..Len(cs) |-> ToLowerChar(cs[i])]

\* String.prototype.includes: needle occurs as a contiguous run of hay
includes(hay, needle) ==
  \E i \in 0..(Len(hay) - Len(needle)) :
     SubSeq(hay, i + 1, i + Len(needle)) = needle

IsWhiteSpace(c) == c \in {" ", "\t", "\n"}

RECURSIVE TrimStart(_)
TrimStart(cs) ==
  IF cs # <<>> /\ IsWhiteSpace(Head(cs)) THEN TrimStart(Tail(cs)) ELSE cs

RECURSIVE TrimEnd(_)
TrimEnd(cs) ==
  IF cs # <<>> /\ IsWhiteSpace(cs[Len(cs)])
    THEN TrimEnd(SubSeq(cs, 1, Len(cs) - 1))
    ELSE cs

\* String.prototype.trim
trim(s) == FromChars(TrimEnd(TrimStart(Chars(s))))

\* variant: slice(0, n), the first n elements
SliceLast_First(s, n) ==
  IF Len(s) <= n THEN s ELSE SubSeq(s, 1, n)

\* Array.prototype.slice(-n)
SliceLast(s, n) ==
  IF Len(s) <= n THEN s ELSE SubSeq(s, Len(s) - n + 1, Len(s))

(***************************************************************************)
(* Values of the environment.                                              *)
(***************************************************************************)
\* a null error / null string state
NULL == "<null>"
\* completion.choices[0]?.message?.content when the model gives no content
NoContent == "<undefined>"
\* currentInterviewId before a session exists
NoInterviewId == 0

\* messages.slice(-10) in handleSendMessage
HistoryLimit == 10
\* userMessageCount >= 4 in handleSendMessage
ConcludeAfterUserMessages == 4

ProjectTitle == "Meal planner"
ProductIdeaPrompt == "Meal-planning app"

\* the rows the projects table can return for the route's project id
Projects ==
  { [id |-> 1, title |-> ProjectTitle, product_idea_prompt |-> ProductIdeaPrompt,
     user_id |-> 1, guideQuestions |-> q] : q \in {<<>>, <<GuideQuestion>>} }

\* what the interviewer's chat completion can produce
ChatContents == {NoContent, BlankText, RawFollowUp, RawClosing}

\* what the user can type into the input
TypedTexts == {TypedReply}

Message(type, content) == [type |-> type, content |-> content]

NoSendCtx ==
  [messages |-> <<>>, userMsgContent |-> EmptyText,
   interviewId |-> NoInterviewId, aiMsgContent |-> EmptyText]

NoRequest ==
  [productIdea |-> EmptyText, conversationHistory |-> <<>>,
   userResponse |-> EmptyText]

(***************************************************************************)
(* State.                                                                  *)
(***************************************************************************)
VARIABLES
  \* React state of InterviewPage
  messages, currentMessage, isTyping, interviewStarted, isLoading, error,
  projectDetails, founderPersona, currentInterviewId, interviewConcluded,
  insightsLoading, insightsError, insightsSuccess,
  \* hosted tables
  interviews, conversations, insights,
  \* positions of the asynchronous handlers and what their closures hold
  fetchPc, startPc, sendPc, insightsPc, sendCtx, insightsCtx,
  \* dependency values the insights effect last ran with
  effectDeps,
  \* body of the last ai-interviewer request
  interviewerRequest,
  \* observation of the calls made so far
  lastSendCall, extractionAttempts, extractorCalls, genFailures, appendErrors

clientVars ==
  <<messages, currentMessage, isTyping, interviewStarted, isLoading, error,
    projectDetails, founderPersona, currentInterviewId, interviewConcluded,
    insightsLoading, insightsError, insightsSuccess>>

storeVars == <<interviews, conversations, insights>>

controlVars == <<fetchPc, startPc, sendPc, insightsPc, sendCtx, insightsCtx,
                 effectDeps, interviewerRequest>>

observationVars ==
  <<lastSendCall, extractionAttempts, extractorCalls, genFailures, appendErrors>>

(***************************************************************************)
(* State of the analytics page (src/unnamed/part_001).  The page has its   *)
(* own isLoading and error; they carry the page's name here.               *)
(***************************************************************************)
VARIABLES
  \* what useAuth gives the page
  authLoading, session,
  \* React state of AnalyticsPage
  analyticsIsLoading, analyticsError, allInsights, executiveSummary,
  topPainPoints, topFeatureRequests, displayQuotes, displayKeyInsights,
  overviewStats,
  \* the page is on /analytics, or has navigated to /
  location,
  \* dependency values the page's effect last ran with
  authEffectDeps,
  \* calls of fetchAndProcessInsights that await the select
  fetchesInFlight,
  \* how the select that resolved last ended
  lastFetch

analyticsVars ==
  <<authLoading, session, analyticsIsLoading, analyticsError, allInsights,
    executiveSummary, topPainPoints, topFeatureRequests, displayQuotes,
    displayKeyInsights, overviewStats, location, authEffectDeps,
    fetchesInFlight, lastFetch>>

(***************************************************************************)
(* State of the dashboard page (src/src/pages/Dashboard.tsx).  Its          *)
(* insightsLoading and insightsError carry the page's name here.           *)
(***************************************************************************)
VARIABLES
  \* what useAuth gives the page: [loading, session]
  dashboardAuth,
  \* React state of Dashboard
  projects, projectsLoading, projectsError, recentInsights,
  dashboardInsightsLoading, dashboardInsightsError, subscription,
  \* the page is on /dashboard, or has navigated to /
  dashboardLocation,
  \* dependency values the page's effect last ran with
  dashboardEffectDeps,
  \* calls of fetchData in flight: the await each is at and what its
  \* closure holds
  fetchDataCalls,
  \* how the select of the projects that resolved last ended
  lastProjectsFetch

dashboardVars ==
  <<dashboardAuth, projects, projectsLoading, projectsError, recentInsights,
    dashboardInsightsLoading, dashboardInsightsError, subscription,
    dashboardLocation, dashboardEffectDeps, fetchDataCalls,
    lastProjectsFetch>>

(***************************************************************************)
(* State of the billing webhook (src/src/pages/Dashboard.tsx:786-926).     *)
(***************************************************************************)
VARIABLES
  \* the subscriptions table: the row of each user, user_id being unique
  subscriptions,
  \* requests the function is serving, each at its database call
  webhookCalls,
  \* users whose row a processed customer.subscription.deleted event has
  \* canceled, with no checkout processed for them since
  canceledByDeletion

webhookVars == <<subscriptions, webhookCalls, canceledByDeletion>>

vars ==
  <<clientVars, storeVars, controlVars, observationVars, analyticsVars,
    dashboardVars, webhookVars>>

\* a string of the analytics page is the sequence of its characters
NotAvailable == <<"N", "/", "A">>

\* session of useAuth while nobody is signed in
NoSession == 0

\* the effect has not run yet
NotRun == <<>>

\* useState initial values of AnalyticsPage
AnalyticsInit ==
  /\ authLoading = TRUE
  /\ session = NoSession
  /\ analyticsIsLoading = TRUE
  /\ analyticsError = NULL
  /\ allInsights = <<>>
  /\ executiveSummary = [learned |-> <<>>, build |-> <<>>]
  /\ topPainPoints = <<>>
  /\ topFeatureRequests = <<>>
  /\ displayQuotes = <<>>
  /\ displayKeyInsights = <<>>
  /\ overviewStats = [totalInterviews |-> 0,
                      topPainPointText |-> NotAvailable,
                      keyInsightText |-> NotAvailable]
  /\ location = "/analytics"
  /\ authEffectDeps = NotRun
  /\ fetchesInFlight = 0
  /\ lastFetch = "none"

\* useState initial values of Dashboard
DashboardInit ==
  /\ dashboardAuth = [loading |-> TRUE, session |-> NoSession]
  /\ projects = <<>>
  /\ projectsLoading = TRUE
  /\ projectsError = NULL
  /\ recentInsights = <<>>
  /\ dashboardInsightsLoading = TRUE
  /\ dashboardInsightsError = NULL
  /\ subscription = {}
  /\ dashboardLocation = "/dashboard"
  /\ dashboardEffectDeps = NotRun
  /\ fetchDataCalls = <<>>
  /\ lastProjectsFetch = "none"

\* users and Stripe customers of the subscriptions table
Users == {1, 2}
Customers == {1, 2}
\* a user without a row
NoRow == [stripe_customer_id |-> 0, status |-> "none"]

\* the table is empty when the function is deployed
WebhookInit ==
  /\ subscriptions = [u \in Users |-> NoRow]
  /\ webhookCalls = {}
  /\ canceledByDeletion = {}

NoInsightsCtx == [interviewId |-> NoInterviewId, fullConversation |-> <<>>]

NoSendCall == [outcome |-> "none", concluded |-> FALSE, text |-> EmptyText]

Init ==
  /\ messages = <<>>
  /\ currentMessage = EmptyText
  /\ isTyping = FALSE
  /\ interviewStarted = FALSE
  /\ isLoading = TRUE
  /\ error = NULL
  /\ projectDetails = {}
  /\ founderPersona = {}
  /\ currentInterviewId = NoInterviewId
  /\ interviewConcluded = FALSE
  /\ insightsLoading = FALSE
  /\ insightsError = NULL
  /\ insightsSuccess = FALSE
  /\ interviews = <<>>
  /\ conversations = <<>>
  /\ insights = <<>>
  /\ fetchPc = "project"
  /\ startPc = "idle"
  /\ sendPc = "idle"
  /\ insightsPc = "idle"
  /\ sendCtx = NoSendCtx
  /\ insightsCtx = NoInsightsCtx
  /\ effectDeps = <<FALSE, NoInterviewId, {}, {}>>
  /\ interviewerRequest = NoRequest
  /\ lastSendCall = NoSendCall
  /\ extractionAttempts = 0
  /\ extractorCalls = 0
  /\ genFailures = 0
  /\ appendErrors = 0
  /\ AnalyticsInit
  /\ DashboardInit
  /\ WebhookInit

\* the single element of a non-null piece of state
The(s) == CHOOSE x \in s : TRUE

\* projectDetails.product_idea_prompt || projectDetails.title
ProductIdea(p) ==
  IF p.product_idea_prompt # EmptyText THEN p.product_idea_prompt ELSE p.title

\* conversations.insert(row): the row is appended, or the store answers with
\* an error object that the caller does not look at
ConversationInsert(interviewId, senderType, content) ==
  \/ /\ conversations' =
          Append(conversations,
                 [interview_id |-> interviewId, sender_type |-> senderType,
                  content |-> content])
     /\ UNCHANGED appendErrors
  \/ /\ appendErrors < MaxAppendErrors
     /\ appendErrors' = appendErrors + 1
     /\ UNCHANGED conversations

(***************************************************************************)
(* fetchDetails: the mount effect that loads the project and the persona.  *)
(***************************************************************************)
fetchDetails_project ==
  /\ fetchPc = "project"
  /\ \/ \E p \in Projects :
          /\ projectDetails' = {p}
          /\ fetchPc' = "profile"
          /\ UNCHANGED <<error, isLoading>>
     \/ /\ error' = "Project not found or access denied."
        /\ isLoading' = FALSE
        /\ fetchPc' = "done"
        /\ UNCHANGED projectDetails
  /\ UNCHANGED <<messages, currentMessage, isTyping, interviewStarted,
                 founderPersona, currentInterviewId, interviewConcluded,
                 insightsLoading, insightsError, insightsSuccess>>
  /\ UNCHANGED <<storeVars, startPc, sendPc, insightsPc, sendCtx, insightsCtx,
                 effectDeps, interviewerRequest, observationVars>>

\* profiles is read without .single(), so profileData is a list and
\* profileData?.full_name is undefined: the name is 'Founder' on both branches
fetchDetails_profile ==
  /\ fetchPc = "profile"
  /\ founderPersona' =
       {[name |-> "Founder", companyName |-> The(projectDetails).title]}
  /\ isLoading' = FALSE
  /\ fetchPc' = "done"
  /\ UNCHANGED <<messages, currentMessage, isTyping, interviewStarted, error,
                 projectDetails, currentInterviewId, interviewConcluded,
                 insightsLoading, insightsError, insightsSuccess>>
  /\ UNCHANGED <<storeVars, startPc, sendPc, insightsPc, sendCtx, insightsCtx,
                 effectDeps, interviewerRequest, observationVars>>

(***************************************************************************)
(* What the page renders.                                                  *)
(***************************************************************************)
EffectDeps ==
  <<interviewConcluded, currentInterviewId, projectDetails, founderPersona>>

\* a render has changed the dependencies and the effect has not run yet;
\* React runs it before it handles the next user event
EffectPending == EffectDeps # effectDeps

ErrorViewShown ==
  ~isLoading /\ (error # NULL \/ projectDetails = {} \/ founderPersona = {})

StartButtonEnabled ==
  /\ ~isLoading
  /\ ~ErrorViewShown
  /\ ~interviewStarted
  /\ ~isTyping

ChatViewShown == ~isLoading /\ ~ErrorViewShown /\ interviewStarted

\* variant: the input is not disabled while isTyping
InputEnabled_WhileTyping == ChatViewShown /\ ~interviewConcluded

InputEnabled == ChatViewShown /\ ~interviewConcluded /\ ~isTyping

SendButtonEnabled == InputEnabled /\ trim(currentMessage) # EmptyText

(***************************************************************************)
(* startInterviewSession                                                   *)
(***************************************************************************)
\* interview_guide?.questions?.[0]?.text || `Hi there! I'm ${name}, ...`
FirstQuestion(p) ==
  IF p.guideQuestions # <<>> /\ p.guideQuestions[1] # EmptyText
    THEN p.guideQuestions[1]
    ELSE OpeningLine

startInterviewSession ==
  /\ startPc = "idle"
  /\ IF projectDetails = {} \/ founderPersona = {}
       THEN UNCHANGED <<interviewStarted, isTyping, startPc>>
       ELSE /\ interviewStarted' = TRUE
            /\ isTyping' = TRUE
            /\ startPc' = "insertInterview"
  /\ UNCHANGED <<messages, currentMessage, isLoading, error, projectDetails,
                 founderPersona, currentInterviewId, interviewConcluded,
                 insightsLoading, insightsError, insightsSuccess>>
  /\ UNCHANGED <<storeVars, fetchPc, sendPc, insightsPc, sendCtx, insightsCtx,
                 effectDeps, interviewerRequest, observationVars>>

\* variant: the catch block does not take interviewStarted back
startInterviewSession_interviewInserted_StillStarted ==
  /\ startPc = "insertInterview"
  /\ \/ LET id == Len(interviews) + 1 IN
          /\ interviews' =
               Append(interviews,
                      [id |-> id, project_id |-> The(projectDetails).id,
                       status |-> "started", completed_at |-> FALSE])
          /\ currentInterviewId' = id
          /\ messages' = <<Message("ai", FirstQuestion(The(projectDetails)))>>
          /\ startPc' = "insertConversation"
          /\ UNCHANGED <<error, interviewStarted, isTyping>>
     \/ /\ error' = "Could not start interview session."
        /\ isTyping' = FALSE
        /\ startPc' = "idle"
        /\ UNCHANGED <<interviews, currentInterviewId, messages,
                       interviewStarted>>
  /\ UNCHANGED <<currentMessage, isLoading, projectDetails, founderPersona,
                 interviewConcluded, insightsLoading, insightsError,
                 insightsSuccess>>
  /\ UNCHANGED <<conversations, insights, fetchPc, sendPc, insightsPc, sendCtx,
                 insightsCtx, effectDeps, interviewerRequest, observationVars>>

startInterviewSession_interviewInserted ==
  /\ startPc = "insertInterview"
  /\ \/ LET id == Len(interviews) + 1 IN
          /\ interviews' =
               Append(interviews,
                      [id |-> id, project_id |-> The(projectDetails).id,
                       status |-> "started", completed_at |-> FALSE])
          /\ currentInterviewId' = id
          /\ messages' = <<Message("ai", FirstQuestion(The(projectDetails)))>>
          /\ startPc' = "insertConversation"
          /\ UNCHANGED <<error, interviewStarted, isTyping>>
     \/ /\ error' = "Could not start interview session."
        /\ interviewStarted' = FALSE
        /\ isTyping' = FALSE
        /\ startPc' = "idle"
        /\ UNCHANGED <<interviews, currentInterviewId, messages>>
  /\ UNCHANGED <<currentMessage, isLoading, projectDetails, founderPersona,
                 interviewConcluded, insightsLoading, insightsError,
                 insightsSuccess>>
  /\ UNCHANGED <<conversations, insights, fetchPc, sendPc, insightsPc, sendCtx,
                 insightsCtx, effectDeps, interviewerRequest, observationVars>>

startInterviewSession_conversationInserted ==
  /\ startPc = "insertConversation"
  /\ ConversationInsert(currentInterviewId, "ai",
                        FirstQuestion(The(projectDetails)))
  /\ isTyping' = FALSE
  /\ startPc' = "idle"
  /\ UNCHANGED <<messages, currentMessage, interviewStarted, isLoading, error,
                 projectDetails, founderPersona, currentInterviewId,
                 interviewConcluded, insightsLoading, insightsError,
                 insightsSuccess>>
  /\ UNCHANGED <<interviews, insights, fetchPc, sendPc, insightsPc, sendCtx,
                 insightsCtx, effectDeps, interviewerRequest, lastSendCall,
                 extractionAttempts, extractorCalls, genFailures>>

(***************************************************************************)
(* The ai-interviewer edge function.                                       *)
(***************************************************************************)
\* what one chat completion does: the call throws, or it yields a content
ChatOutcomes ==
  {[kind |-> "throws", content |-> NoContent]} \cup
  {[kind |-> "content", content |-> c] : c \in ChatContents}

\* content?.trim() || "I'm not sure how to respond to that. ..."
InterviewerReply(content) ==
  IF content = NoContent \/ trim(content) = EmptyText
    THEN EdgeFallback
    ELSE trim(content)

\* the messages of the chat completion the function asks for: the system
\* prompt, the history with its types mapped to roles, the reply
SystemPrompt == "You are Founder of a startup conducting a customer interview"

CompletionMessages(request) ==
  <<[role |-> "system", content |-> SystemPrompt]>>
    \o [k \in 1..Len(request.conversationHistory) |->
          [role |-> IF request.conversationHistory[k].type = "ai"
                      THEN "assistant" ELSE "user",
           content |-> request.conversationHistory[k].content]]
    \o <<[role |-> "user", content |-> request.userResponse]>>

\* the response of the function: a 2xx body {aiResponse}, or a non-2xx
\* body {error}
aiInterviewer(request, chat) ==
  IF \/ request.productIdea = EmptyText
     \/ request.userResponse = EmptyText
    THEN [ok |-> FALSE, aiResponse |-> EmptyText]
    ELSE IF chat.kind = "throws"
      THEN [ok |-> FALSE, aiResponse |-> EmptyText]
      ELSE [ok |-> TRUE, aiResponse |-> InterviewerReply(chat.content)]

(***************************************************************************)
(* handleSendMessage                                                       *)
(***************************************************************************)
UserMessageCount(msgs) ==
  Cardinality({i \in 1..Len(msgs) : msgs[i].type = "user"})

\* aiMsgContent.toLowerCase().includes("thank you for your time")
HasClosingPhrase(aiMsgContent) ==
  includes(toLowerCase(Chars(aiMsgContent)), Chars(ClosingPhrase))

\* variant: the threshold is one message too low
ShouldConclude_AfterThree(updatedMessages, aiMsgContent) ==
  \/ UserMessageCount(updatedMessages) >= ConcludeAfterUserMessages - 1
  \/ HasClosingPhrase(aiMsgContent)

\* variant: > in place of >=
ShouldConclude_StrictlyMore(updatedMessages, aiMsgContent) ==
  \/ UserMessageCount(updatedMessages) > ConcludeAfterUserMessages
  \/ HasClosingPhrase(aiMsgContent)

\* variant: the message count is not looked at
ShouldConclude_PhraseOnly(updatedMessages, aiMsgContent) ==
  HasClosingPhrase(aiMsgContent)

\* variant: the threshold is one message too high
ShouldConclude_AfterFive(updatedMessages, aiMsgContent) ==
  \/ UserMessageCount(updatedMessages) >= ConcludeAfterUserMessages + 1
  \/ HasClosingPhrase(aiMsgContent)

\* the condition under which handleSendMessage concludes the interview
ShouldConclude(updatedMessages, aiMsgContent) ==
  \/ UserMessageCount(updatedMessages) >= ConcludeAfterUserMessages
  \/ HasClosingPhrase(aiMsgContent)

\* the early return of the handler
SendGuardFails ==
  \/ trim(currentMessage) = EmptyText
  \/ projectDetails = {}
  \/ founderPersona = {}
  \/ currentInterviewId = NoInterviewId
  \/ interviewConcluded

handleSendMessage ==
  /\ sendPc = "idle"
  /\ IF SendGuardFails
       THEN /\ lastSendCall' =
                 [outcome |-> "returned", concluded |-> interviewConcluded,
                  text |-> trim(currentMessage)]
            /\ UNCHANGED <<messages, currentMessage, isTyping, sendPc, sendCtx>>
       ELSE /\ lastSendCall' =
                 [outcome |-> "accepted", concluded |-> interviewConcluded,
                  text |-> trim(currentMessage)]
            /\ messages' = Append(messages, Message("user", trim(currentMessage)))
            /\ currentMessage' = EmptyText
            /\ isTyping' = TRUE
            /\ sendCtx' = [messages |-> messages,
                           userMsgContent |-> trim(currentMessage),
                           interviewId |-> currentInterviewId,
                           aiMsgContent |-> EmptyText]
            /\ sendPc' = "insertUser"
  /\ UNCHANGED <<interviewStarted, isLoading, error, projectDetails,
                 founderPersona, currentInterviewId, interviewConcluded,
                 insightsLoading, insightsError, insightsSuccess>>
  /\ UNCHANGED <<storeVars, fetchPc, startPc, insightsPc, insightsCtx,
                 effectDeps, interviewerRequest, extractionAttempts, extractorCalls, genFailures, appendErrors>>

\* the user row insert resolves and the function is invoked
handleSendMessage_userInserted ==
  /\ sendPc = "insertUser"
  /\ ConversationInsert(sendCtx.interviewId, "user", sendCtx.userMsgContent)
  /\ interviewerRequest' =
       [productIdea |-> ProductIdea(The(projectDetails)),
        conversationHistory |-> SliceLast(sendCtx.messages, HistoryLimit),
        userResponse |-> sendCtx.userMsgContent]
  /\ sendPc' = "invoke"
  /\ UNCHANGED <<clientVars, interviews, insights, fetchPc, startPc, insightsPc,
                 sendCtx, insightsCtx, effectDeps, lastSendCall,
                 extractionAttempts, extractorCalls, genFailures>>

\* variant: the catch block also writes the apology to the transcript
SendCatch_Persisting ==
  /\ messages' = Append(messages, Message("ai", ApologyText))
  /\ isTyping' = FALSE
  /\ sendPc' = "idle"
  /\ sendCtx' = NoSendCtx
  /\ conversations' =
       Append(conversations,
              [interview_id |-> sendCtx.interviewId, sender_type |-> "ai",
               content |-> ApologyText])
  /\ UNCHANGED <<interviewConcluded, interviews, insights>>

\* the catch block: a local apology message, nothing is written to the store
SendCatch ==
  /\ messages' = Append(messages, Message("ai", ApologyText))
  /\ isTyping' = FALSE
  /\ sendPc' = "idle"
  /\ sendCtx' = NoSendCtx
  /\ UNCHANGED <<interviewConcluded, storeVars>>

\* the function call resolves: with a function error (non-2xx answer or the
\* function unreachable), or with the body of a 2xx answer
handleSendMessage_invokedWithin(maxFailures) ==
  /\ sendPc = "invoke"
  /\ \E chat \in ChatOutcomes, reachable \in BOOLEAN :
       LET response == aiInterviewer(interviewerRequest, chat)
           aiMsgContent ==
             IF response.aiResponse # EmptyText
               THEN response.aiResponse ELSE ClientFallback
       IN IF ~reachable \/ ~response.ok
            THEN /\ genFailures < maxFailures
                 /\ genFailures' = genFailures + 1
                 /\ SendCatch
            ELSE /\ messages' = Append(messages, Message("ai", aiMsgContent))
                 /\ sendCtx' = [sendCtx EXCEPT !.aiMsgContent = aiMsgContent]
                 /\ sendPc' = "insertAi"
                 /\ UNCHANGED <<isTyping, interviewConcluded, storeVars,
                                genFailures>>
  /\ UNCHANGED <<currentMessage, interviewStarted, isLoading, error,
                 projectDetails, founderPersona, currentInterviewId,
                 insightsLoading, insightsError, insightsSuccess>>
  /\ UNCHANGED <<fetchPc, startPc, insightsPc, insightsCtx, effectDeps,
                 interviewerRequest, lastSendCall, extractionAttempts, extractorCalls, appendErrors>>

handleSendMessage_invoked == handleSendMessage_invokedWithin(MaxGenFailures)

\* the ai row insert resolves and the termination condition is evaluated
handleSendMessage_aiInserted ==
  /\ sendPc = "insertAi"
  /\ ConversationInsert(sendCtx.interviewId, "ai", sendCtx.aiMsgContent)
  /\ LET updatedMessages ==
           sendCtx.messages \o
             <<Message("user", sendCtx.userMsgContent),
               Message("ai", sendCtx.aiMsgContent)>>
     IN IF ShouldConclude(updatedMessages, sendCtx.aiMsgContent)
          THEN /\ interviewConcluded' = TRUE
               /\ sendPc' = "updateStatus"
               /\ UNCHANGED <<isTyping, sendCtx>>
          ELSE /\ isTyping' = FALSE
               /\ sendPc' = "idle"
               /\ sendCtx' = NoSendCtx
               /\ UNCHANGED interviewConcluded
  /\ UNCHANGED <<messages, currentMessage, interviewStarted, isLoading, error,
                 projectDetails, founderPersona, currentInterviewId,
                 insightsLoading, insightsError, insightsSuccess>>
  /\ UNCHANGED <<interviews, insights, fetchPc, startPc, insightsPc,
                 insightsCtx, effectDeps, interviewerRequest, lastSendCall,
                 extractionAttempts, extractorCalls, genFailures>>

\* variant: a failed status update takes the conclusion back
handleSendMessage_statusUpdated_Rollback ==
  /\ sendPc = "updateStatus"
  /\ \/ /\ interviews' =
             [interviews EXCEPT ![sendCtx.interviewId] =
                [@ EXCEPT !.status = "completed", !.completed_at = TRUE]]
        /\ UNCHANGED interviewConcluded
     \/ /\ interviewConcluded' = FALSE
        /\ UNCHANGED interviews
  /\ isTyping' = FALSE
  /\ sendPc' = "idle"
  /\ sendCtx' = NoSendCtx
  /\ UNCHANGED <<messages, currentMessage, interviewStarted, isLoading, error,
                 projectDetails, founderPersona, currentInterviewId,
                 insightsLoading, insightsError, insightsSuccess>>
  /\ UNCHANGED <<conversations, insights, fetchPc, startPc, insightsPc,
                 insightsCtx, effectDeps, interviewerRequest, observationVars>>

\* interviews.update({status: 'completed', completed_at}).eq('id', id)
\* resolves: the row is updated, or the store answers with an ignored error
handleSendMessage_statusUpdated ==
  /\ sendPc = "updateStatus"
  /\ \/ interviews' =
          [interviews EXCEPT ![sendCtx.interviewId] =
             [@ EXCEPT !.status = "completed", !.completed_at = TRUE]]
     \/ UNCHANGED interviews
  /\ isTyping' = FALSE
  /\ sendPc' = "idle"
  /\ sendCtx' = NoSendCtx
  /\ UNCHANGED <<messages, currentMessage, interviewStarted, isLoading, error,
                 projectDetails, founderPersona, currentInterviewId,
                 interviewConcluded, insightsLoading, insightsError,
                 insightsSuccess>>
  /\ UNCHANGED <<conversations, insights, fetchPc, startPc, insightsPc,
                 insightsCtx, effectDeps, interviewerRequest, observationVars>>

\* onChange of the input
setCurrentMessage(t) ==
  /\ currentMessage' = t
  /\ UNCHANGED <<messages, isTyping, interviewStarted, isLoading, error,
                 projectDetails, founderPersona, currentInterviewId,
                 interviewConcluded, insightsLoading, insightsError,
                 insightsSuccess>>
  /\ UNCHANGED <<storeVars, controlVars, observationVars>>

(***************************************************************************)
(* The process-interview-insights edge function.                           *)
(***************************************************************************)
\* "List up to 5 key pain points", "up to 5 impactful quotes",
\* "up to 3 key objections", "up to 3 new ideas" of generateInsightPrompt
MaxPainPoints == 5
MaxQuotes == 5
MaxObjections == 3
MaxProductIdeas == 3

Repeat(x, n) == [i \in 1..n |-> x]

PainPoint == [point |-> "planning takes too long", severity |-> "high"]
NotableQuote == [quote |-> "I give up by Wednesday", speaker |-> "User",
                 sentiment |-> "frustrated"]
Objection == [objection |-> "too expensive", type |-> "price"]
ProductIdeaItem == [idea |-> "shopping list export", source |-> "implied_need"]
ExecutiveSummary == [whatWeLearned |-> "Planning is the bottleneck",
                     whatToBuildNext |-> "A weekly planner"]

\* the JSON objects the analysis completion can produce: the object the
\* prompt asks for, one without the painPoints key, one whose lists are
\* longer than the prompt allows, and one that carries an error key
InsightObjects ==
  { [executiveSummary |-> ExecutiveSummary,
     painPoints |-> Repeat(PainPoint, MaxPainPoints),
     notableQuotes |-> Repeat(NotableQuote, MaxQuotes),
     objections |-> Repeat(Objection, MaxObjections),
     productIdeas |-> Repeat(ProductIdeaItem, MaxProductIdeas)],
    [executiveSummary |-> ExecutiveSummary,
     notableQuotes |-> Repeat(NotableQuote, 1),
     objections |-> Repeat(Objection, 1),
     productIdeas |-> Repeat(ProductIdeaItem, 1)],
    [executiveSummary |-> ExecutiveSummary,
     painPoints |-> Repeat(PainPoint, MaxPainPoints + 1),
     notableQuotes |-> Repeat(NotableQuote, MaxQuotes + 1),
     objections |-> Repeat(Objection, MaxObjections + 1),
     productIdeas |-> Repeat(ProductIdeaItem, MaxProductIdeas + 1)],
    [error |-> "transcript too short"] }

\* what one analysis completion does: the call throws, it yields no content,
\* it yields text that is not JSON, or it yields the text of a JSON object
AnalysisOutcomes ==
  {[kind |-> "throws"], [kind |-> "empty"], [kind |-> "text"]} \cup
  {[kind |-> "json", value |-> v] : v \in InsightObjects}

\* JSON.parse(rawResponse)
JSONParse(raw) ==
  IF raw.kind = "json"
    THEN [ok |-> TRUE, value |-> raw.value]
    ELSE [ok |-> FALSE, value |-> [error |-> "not valid JSON"]]

\* variant: an empty transcript is not refused
processInterviewInsights_AnyTranscript(request, analysis) ==
  IF request.productIdea = EmptyText
    THEN [ok |-> FALSE, body |-> [error |-> "Missing required fields"]]
    ELSE IF analysis.kind = "throws"
      THEN [ok |-> FALSE, body |-> [error |-> "completion failed"]]
      ELSE IF analysis.kind = "empty"
        THEN [ok |-> FALSE,
              body |-> [error |-> "OpenAI returned an empty response."]]
        ELSE IF ~JSONParse(analysis).ok
          THEN [ok |-> FALSE, body |-> JSONParse(analysis).value]
          ELSE [ok |-> TRUE, body |-> JSONParse(analysis).value]

\* the response of the function: a 2xx body with the parsed object, or a
\* non-2xx body {error}
processInterviewInsights(request, analysis) ==
  IF \/ request.productIdea = EmptyText
     \/ request.fullConversation = <<>>
    THEN [ok |-> FALSE, body |-> [error |-> "Missing required fields"]]
    ELSE IF analysis.kind = "throws"
      THEN [ok |-> FALSE, body |-> [error |-> "completion failed"]]
      ELSE IF analysis.kind = "empty"
        THEN [ok |-> FALSE,
              body |-> [error |-> "OpenAI returned an empty response."]]
        ELSE IF ~JSONParse(analysis).ok
          THEN [ok |-> FALSE, body |-> JSONParse(analysis).value]
          ELSE [ok |-> TRUE, body |-> JSONParse(analysis).value]

(***************************************************************************)
(* processInsights: the effect on interviewConcluded, currentInterviewId,  *)
(* projectDetails and founderPersona.                                      *)
(***************************************************************************)
\* obj.key || fallback, for a key whose value is an object or a list
Field(obj, key, fallback) == IF key \in DOMAIN obj THEN obj[key] ELSE fallback

\* the row processInsights inserts into insights
InsightRow(interviewId, p, obj) ==
  [interview_id |-> interviewId,
   project_id |-> p.id,
   user_id |-> p.user_id,
   summary_text |->
     IF "executiveSummary" \in DOMAIN obj
       THEN obj.executiveSummary.whatWeLearned ELSE EmptyText,
   key_learnings |-> Field(obj, "executiveSummary", <<>>),
   pain_points |-> Field(obj, "painPoints", <<>>),
   quotes |-> Field(obj, "notableQuotes", <<>>),
   objections |-> Field(obj, "objections", <<>>),
   product_ideas |-> Field(obj, "productIdeas", <<>>)]

\* variant: only the respondent's rows are selected
ConversationRows_Replies(interviewId) ==
  SelectSeq(conversations,
            LAMBDA r : r.interview_id = interviewId /\ r.sender_type = "user")

\* conversations.select(...).eq('interview_id', id).order('id')
ConversationRows(interviewId) ==
  SelectSeq(conversations, LAMBDA r : r.interview_id = interviewId)

\* the map over convoData
FullConversation(rows) ==
  [i \in 1..Len(rows) |->
     [type |-> IF rows[i].sender_type = "ai" THEN "ai" ELSE "user",
      content |-> rows[i].content]]

ProcessGuardFails ==
  \/ ~interviewConcluded
  \/ currentInterviewId = NoInterviewId
  \/ projectDetails = {}
  \/ founderPersona = {}

\* variant: the effect does not look at interviewConcluded
ShouldProcessInsights_AnySession ==
  /\ currentInterviewId # NoInterviewId
  /\ projectDetails # {}
  /\ founderPersona # {}

\* if (interviewConcluded) processInsights(), and the guard of processInsights
ShouldProcessInsights == interviewConcluded /\ ~ProcessGuardFails

useEffect_processInsights ==
  /\ EffectPending
  /\ effectDeps' = EffectDeps
  /\ IF ShouldProcessInsights
       THEN /\ insightsLoading' = TRUE
            /\ insightsError' = NULL
            /\ insightsSuccess' = FALSE
            /\ insightsPc' = "fetchConversation"
            /\ insightsCtx' = [interviewId |-> currentInterviewId,
                               fullConversation |-> <<>>]
            /\ extractionAttempts' = extractionAttempts + 1
       ELSE UNCHANGED <<insightsLoading, insightsError, insightsSuccess,
                        insightsPc, insightsCtx, extractionAttempts>>
  /\ UNCHANGED <<messages, currentMessage, isTyping, interviewStarted,
                 isLoading, error, projectDetails, founderPersona,
                 currentInterviewId, interviewConcluded>>
  /\ UNCHANGED <<storeVars, fetchPc, startPc, sendPc, sendCtx,
                 interviewerRequest, lastSendCall, extractorCalls,
                 genFailures, appendErrors>>

\* the catch and finally blocks of processInsights
InsightsCatch(message) ==
  /\ insightsError' = message
  /\ insightsSuccess' = FALSE
  /\ insightsLoading' = FALSE
  /\ insightsPc' = "idle"
  /\ insightsCtx' = NoInsightsCtx

\* the transcript read resolves; on data the function is invoked
processInsights_conversationFetched ==
  /\ insightsPc = "fetchConversation"
  /\ \/ /\ InsightsCatch("Failed to fetch conversation")
        /\ UNCHANGED extractorCalls
     \/ /\ insightsCtx' =
             [insightsCtx EXCEPT !.fullConversation =
                FullConversation(ConversationRows(insightsCtx.interviewId))]
        /\ insightsPc' = "invoke"
        /\ extractorCalls' = extractorCalls + 1
        /\ UNCHANGED <<insightsError, insightsSuccess, insightsLoading>>
  /\ UNCHANGED <<messages, currentMessage, isTyping, interviewStarted,
                 isLoading, error, projectDetails, founderPersona,
                 currentInterviewId, interviewConcluded>>
  /\ UNCHANGED <<storeVars, fetchPc, startPc, sendPc, sendCtx, effectDeps,
                 interviewerRequest, lastSendCall, extractionAttempts, genFailures, appendErrors>>

\* the function call resolves; on a 2xx body without an error key the row is
\* sent to the insights table
processInsights_invoked ==
  /\ insightsPc = "invoke"
  /\ \E analysis \in AnalysisOutcomes, reachable \in BOOLEAN :
       LET response ==
             processInterviewInsights(
               [productIdea |-> ProductIdea(The(projectDetails)),
                fullConversation |-> insightsCtx.fullConversation],
               analysis)
       IN IF ~reachable \/ ~response.ok
            THEN InsightsCatch("Edge Function returned a non-2xx status code")
            ELSE IF "error" \in DOMAIN response.body
              THEN InsightsCatch(response.body.error)
              ELSE /\ insightsCtx' =
                        [interviewId |-> insightsCtx.interviewId,
                         fullConversation |-> insightsCtx.fullConversation,
                         insights |-> response.body,
                         row |-> InsightRow(insightsCtx.interviewId,
                                            The(projectDetails), response.body)]
                   /\ insightsPc' = "save"
                   /\ UNCHANGED <<insightsError, insightsSuccess,
                                  insightsLoading>>
  /\ UNCHANGED <<messages, currentMessage, isTyping, interviewStarted,
                 isLoading, error, projectDetails, founderPersona,
                 currentInterviewId, interviewConcluded>>
  /\ UNCHANGED <<storeVars, fetchPc, startPc, sendPc, sendCtx, effectDeps,
                 interviewerRequest, lastSendCall, extractionAttempts,
                 extractorCalls, genFailures, appendErrors>>

\* the insert into insights resolves
processInsights_saved ==
  /\ insightsPc = "save"
  /\ \/ /\ insights' = Append(insights, insightsCtx.row)
        /\ insightsSuccess' = TRUE
        /\ insightsLoading' = FALSE
        /\ insightsPc' = "idle"
        /\ insightsCtx' = NoInsightsCtx
        /\ UNCHANGED insightsError
     \/ /\ InsightsCatch("insert failed")
        /\ UNCHANGED insights
  /\ UNCHANGED <<messages, currentMessage, isTyping, interviewStarted,
                 isLoading, error, projectDetails, founderPersona,
                 currentInterviewId, interviewConcluded>>
  /\ UNCHANGED <<interviews, conversations, fetchPc, startPc, sendPc, sendCtx,
                 effectDeps, interviewerRequest, observationVars>>

(***************************************************************************)
(* User events, as the rendered page allows them.                          *)
(***************************************************************************)
ClickStart == StartButtonEnabled /\ ~EffectPending /\ startInterviewSession

TypeMessage ==
  /\ InputEnabled
  /\ ~EffectPending
  /\ \E t \in TypedTexts : setCurrentMessage(t)

ClickSend == SendButtonEnabled /\ ~EffectPending /\ handleSendMessage

\* handleKeyPress: Enter in the input
PressEnter == InputEnabled /\ ~EffectPending /\ handleSendMessage

Next ==
  \/ fetchDetails_project /\ UNCHANGED <<analyticsVars, dashboardVars, webhookVars>>
  \/ fetchDetails_profile /\ UNCHANGED <<analyticsVars, dashboardVars, webhookVars>>
  \/ ClickStart /\ UNCHANGED <<analyticsVars, dashboardVars, webhookVars>>
  \/ startInterviewSession_interviewInserted /\ UNCHANGED <<analyticsVars, dashboardVars, webhookVars>>
  \/ startInterviewSession_conversationInserted /\ UNCHANGED <<analyticsVars, dashboardVars, webhookVars>>
  \/ TypeMessage /\ UNCHANGED <<analyticsVars, dashboardVars, webhookVars>>
  \/ ClickSend /\ UNCHANGED <<analyticsVars, dashboardVars, webhookVars>>
  \/ PressEnter /\ UNCHANGED <<analyticsVars, dashboardVars, webhookVars>>
  \/ handleSendMessage_userInserted /\ UNCHANGED <<analyticsVars, dashboardVars, webhookVars>>
  \/ handleSendMessage_invoked /\ UNCHANGED <<analyticsVars, dashboardVars, webhookVars>>
  \/ handleSendMessage_aiInserted /\ UNCHANGED <<analyticsVars, dashboardVars, webhookVars>>
  \/ handleSendMessage_statusUpdated /\ UNCHANGED <<analyticsVars, dashboardVars, webhookVars>>
  \/ useEffect_processInsights /\ UNCHANGED <<analyticsVars, dashboardVars, webhookVars>>
  \/ processInsights_conversationFetched /\ UNCHANGED <<analyticsVars, dashboardVars, webhookVars>>
  \/ processInsights_invoked /\ UNCHANGED <<analyticsVars, dashboardVars, webhookVars>>
  \/ processInsights_saved /\ UNCHANGED <<analyticsVars, dashboardVars, webhookVars>>

Spec == Init /\ [][Next]_vars

(***************************************************************************)
(* The page's behaviour, and in addition the input's onChange and          *)
(* handleSendMessage called directly, without the rendered controls, on a  *)
(* concluded session whose status update and insight processing have       *)
(* ended.                                                                  *)
(***************************************************************************)
ConcludedAndSettled ==
  /\ interviewConcluded
  /\ ~EffectPending
  /\ sendPc = "idle"
  /\ insightsPc = "idle"

CallSetCurrentMessage ==
  /\ ConcludedAndSettled
  /\ \E t \in TypedTexts : setCurrentMessage(t)

CallHandleSendMessage ==
  /\ ConcludedAndSettled
  /\ trim(currentMessage) # EmptyText
  /\ handleSendMessage

NextApi ==
  \/ Next
  \/ CallSetCurrentMessage /\ UNCHANGED <<analyticsVars, dashboardVars, webhookVars>>
  \/ CallHandleSendMessage /\ UNCHANGED <<analyticsVars, dashboardVars, webhookVars>>

SpecApi == Init /\ [][NextApi]_vars
(***************************************************************************)
(* The conversation alone, with generation calls failing often enough for  *)
(* the local message list to outgrow the history limit; what follows the   *)
(* start of processInsights is left out.                                   *)
(***************************************************************************)
NextLongChat ==
  \/ fetchDetails_project /\ UNCHANGED <<analyticsVars, dashboardVars, webhookVars>>
  \/ fetchDetails_profile /\ UNCHANGED <<analyticsVars, dashboardVars, webhookVars>>
  \/ ClickStart /\ UNCHANGED <<analyticsVars, dashboardVars, webhookVars>>
  \/ startInterviewSession_interviewInserted /\ UNCHANGED <<analyticsVars, dashboardVars, webhookVars>>
  \/ startInterviewSession_conversationInserted /\ UNCHANGED <<analyticsVars, dashboardVars, webhookVars>>
  \/ TypeMessage /\ UNCHANGED <<analyticsVars, dashboardVars, webhookVars>>
  \/ ClickSend /\ UNCHANGED <<analyticsVars, dashboardVars, webhookVars>>
  \/ PressEnter /\ UNCHANGED <<analyticsVars, dashboardVars, webhookVars>>
  \/ handleSendMessage_userInserted /\ UNCHANGED <<analyticsVars, dashboardVars, webhookVars>>
  \/ handleSendMessage_invokedWithin(MaxChatFailures) /\ UNCHANGED <<analyticsVars, dashboardVars, webhookVars>>
  \/ handleSendMessage_aiInserted /\ UNCHANGED <<analyticsVars, dashboardVars, webhookVars>>
  \/ handleSendMessage_statusUpdated /\ UNCHANGED <<analyticsVars, dashboardVars, webhookVars>>
  \/ useEffect_processInsights /\ UNCHANGED <<analyticsVars, dashboardVars, webhookVars>>

SpecLongChat == Init /\ [][NextLongChat]_vars

(***************************************************************************)
(* The analytics page: strings and objects as the page's code uses them.   *)
(***************************************************************************)
\* String.prototype.substring(from, to), 0 <= from <= to
substring(s, from, to) ==
  SubSeq(s, from + 1, IF to < Len(s) THEN to ELSE Len(s))

\* Array.prototype.slice(0, n)
SliceFirst(s, n) == SubSeq(s, 1, IF n < Len(s) THEN n ELSE Len(s))

\* a value in a condition: the empty string is falsy, as is a missing field
Truthy(text) == text # <<>>

\* String(undefined), what + makes of an undefined left operand
UndefinedAsString == <<"u", "n", "d", "e", "f", "i", "n", "e", "d">>

Ellipsis == <<".", ".", ".">>

Digits == <<"0", "1", "2", "3", "4", "5", "6", "7", "8", "9">>

IsDigit(c) == \E i \in 1..10 : Digits[i] = c

DigitValue(c) == (CHOOSE i \in 1..10 : Digits[i] = c) - 1

\* length up to which every canonical numeric string is below 2^32 - 1
ArrayIndexDigits == 9

\* a property key that is an array index: the canonical decimal form of an
\* integer from 0 to 2^32 - 2
IsArrayIndex(key) ==
  /\ key # <<>>
  /\ Len(key) <= ArrayIndexDigits
  /\ \A i \in 1..Len(key) : IsDigit(key[i])
  /\ (Len(key) = 1 \/ key[1] # "0")

\* the integer an array-index key denotes
RECURSIVE ToNumber(_)
ToNumber(key) ==
  IF key = <<>> THEN 0
  ELSE 10 * ToNumber(SubSeq(key, 1, Len(key) - 1)) + DigitValue(key[Len(key)])

\* An object used as a dictionary is the sequence of its own properties in
\* the order they were created, each a record with a key field.
HasKey(obj, key) == \E i \in 1..Len(obj) : obj[i].key = key

KeyIndex(obj, key) == CHOOSE i \in 1..Len(obj) : obj[i].key = key

\* the properties whose key is (wantIndex) or is not an array index, in order
RECURSIVE SelectEntries(_, _)
SelectEntries(obj, wantIndex) ==
  IF obj = <<>> THEN <<>>
  ELSE IF IsArrayIndex(Head(obj).key) = wantIndex
    THEN <<Head(obj)>> \o SelectEntries(Tail(obj), wantIndex)
    ELSE SelectEntries(Tail(obj), wantIndex)

\* entries with array-index keys in ascending numeric order
RECURSIVE AscendingIndices(_)
AscendingIndices(entries) ==
  IF entries = <<>> THEN <<>>
  ELSE LET least == CHOOSE i \in 1..Len(entries) :
                      \A j \in 1..Len(entries) :
                         ToNumber(entries[i].key) <= ToNumber(entries[j].key)
       IN <<entries[least]>> \o
          AscendingIndices(SubSeq(entries, 1, least - 1) \o
                           SubSeq(entries, least + 1, Len(entries)))

\* Object.entries: own properties in the order of OrdinaryOwnPropertyKeys,
\* array-index keys first in ascending numeric order, then the other string
\* keys in the order of their creation
ObjectEntries(obj) ==
  AscendingIndices(SelectEntries(obj, TRUE)) \o SelectEntries(obj, FALSE)

\* Array.prototype.sort((a, b) => b.responses - a.responses): a stable sort,
\* entries with equal responses keep their order
RECURSIVE InsertByResponses(_, _)
InsertByResponses(sorted, entry) ==
  IF sorted = <<>> THEN <<entry>>
  ELSE IF Head(sorted).responses >= entry.responses
    THEN <<Head(sorted)>> \o InsertByResponses(Tail(sorted), entry)
    ELSE <<entry>> \o sorted

RECURSIVE SortByResponses(_)
SortByResponses(entries) ==
  IF entries = <<>> THEN <<>>
  ELSE InsertByResponses(SortByResponses(SubSeq(entries, 1, Len(entries) - 1)),
                         entries[Len(entries)])

\* (count / insights.length) * 100, kept as the exact quotient
Percentage(count, total) == [numerator |-> count * 100, denominator |-> total]

(***************************************************************************)
(* Rows of the insights table as the page reads them.  Only the fields     *)
(* that processDataForDisplay and the render read are kept.  A nullable    *)
(* column or object is {} when null and {v} otherwise; a string that is    *)
(* missing is the empty string, which the code treats alike (both falsy).  *)
(***************************************************************************)
PointA == <<"A">>
PointB == <<"B">>
PointC == <<"C">>
PointD == <<"D">>
PointTen == <<"1", "0">>
PointTwo == <<"2">>

LearnedShort == <<"F", "a", "s", "t">>
\* 51 characters
LearnedLong == Repeat("x", 51)
BuildExport == <<"E", "x", "p", "o", "r", "t">>
BuildSync == <<"S", "y", "n", "c">>

SummaryText == <<"S", "u", "m">>
QuoteText == <<"Q">>
ProjectName == <<"P">>
UserSpeaker == <<"U", "s", "e", "r">>
FounderSpeaker == <<"F", "o", "u", "n", "d", "e", "r">>
Interviewee ==
  <<"I", "n", "t", "e", "r", "v", "i", "e", "w", "e", "e">>
UnknownProject ==
  <<"U", "n", "k", "n", "o", "w", "n", " ", "P", "r", "o", "j", "e", "c", "t">>
GeneralInsight ==
  <<"G", "e", "n", "e", "r", "a", "l", " ", "I", "n", "s", "i", "g", "h", "t">>

PainPointDB(point, severity) == [point |-> point, severity |-> severity]
ProductIdeaDB(idea) == [idea |-> idea]
QuoteDB(quote, speaker) == [quote |-> quote, speaker |-> speaker]
ExecutiveSummaryDB(learned, build) ==
  [whatWeLearned |-> learned, whatToBuildNext |-> build]

\* the rows a select can return: one pain point each in the first two, ties
\* among texts and numerals and a repeated point in the third, and in the
\* fourth a point, a quote and a learning without text
InsightRecords ==
  << [project_id |-> 1,
      summary_text |-> SummaryText,
      key_learnings |-> {ExecutiveSummaryDB(LearnedShort, BuildExport)},
      pain_points |-> {<<PainPointDB(PointA, "high")>>},
      quotes |-> {<<QuoteDB(QuoteText, UserSpeaker)>>},
      product_ideas |-> {<<ProductIdeaDB(PointB)>>},
      projects |-> {[title |-> ProjectName]}],
     [project_id |-> 2,
      summary_text |-> <<>>,
      key_learnings |-> {},
      pain_points |-> {<<PainPointDB(PointB, "")>>},
      quotes |-> {},
      product_ideas |-> {<<ProductIdeaDB(PointA), ProductIdeaDB(<<>>)>>},
      projects |-> {}],
     [project_id |-> 1,
      summary_text |-> SummaryText,
      key_learnings |-> {ExecutiveSummaryDB(LearnedLong, <<>>)},
      pain_points |-> {<<PainPointDB(PointD, "low"),
                         PainPointDB(PointTen, "high"),
                         PainPointDB(PointTwo, "medium"),
                         PainPointDB(PointC, "high"),
                         PainPointDB(PointC, "")>>},
      quotes |-> {<<QuoteDB(QuoteText, FounderSpeaker),
                    QuoteDB(QuoteText, UserSpeaker)>>},
      product_ideas |-> {<<ProductIdeaDB(PointTen), ProductIdeaDB(PointC),
                           ProductIdeaDB(PointTwo)>>},
      projects |-> {[title |-> <<>>]}],
     [project_id |-> 3,
      summary_text |-> SummaryText,
      key_learnings |-> {ExecutiveSummaryDB(<<>>, BuildSync)},
      pain_points |-> {<<PainPointDB(<<>>, "low")>>},
      quotes |-> {<<QuoteDB(<<>>, UserSpeaker)>>},
      product_ideas |-> {},
      projects |-> {[title |-> ProjectName]}] >>

\* sequences of up to n of the rows above
RecordLists(n) ==
  {[k \in 1..Len(choice) |-> InsightRecords[choice[k]]] :
     choice \in UNION {[1..m -> 1..Len(InsightRecords)] : m \in 0..n}}

\* i.pain_points?.forEach, i.product_ideas?.forEach, i.quotes?.forEach: the
\* elements of a nullable list, none when it is null
Elements(nullable) == IF nullable = {} THEN <<>> ELSE The(nullable)

\* projects?.title
ProjectTitleOf(i) == IF i.projects = {} THEN <<>> ELSE The(i.projects).title

(***************************************************************************)
(* processDataForDisplay.                                                  *)
(***************************************************************************)
\* taken first by slice(0, 5), four times
DisplayLimit == 5
\* substring(0, 50) of the key learning, substring(0, 100) of a summary
KeyInsightTextLength == 50
KeyInsightTitleLength == 100

\* variant: a string that was collected before is not collected again
RECURSIVE CollectLearnings_Distinct(_, _)
CollectLearnings_Distinct(records, field) ==
  IF records = <<>> THEN <<>>
  ELSE LET i == records[Len(records)]
           text == IF i.key_learnings = {} THEN <<>>
                   ELSE The(i.key_learnings)[field]
           before == CollectLearnings_Distinct(
                       SubSeq(records, 1, Len(records) - 1), field)
       IN IF Truthy(text) /\ \A n \in 1..Len(before) : before[n] # text
            THEN Append(before, text) ELSE before

\* learnedPoints and buildPoints: the truthy strings of the field, in the
\* order of the records
RECURSIVE CollectLearnings(_, _)
CollectLearnings(records, field) ==
  IF records = <<>> THEN <<>>
  ELSE LET i == Head(records)
           text == IF i.key_learnings = {} THEN <<>>
                   ELSE The(i.key_learnings)[field]
       IN (IF Truthy(text) THEN <<text>> ELSE <<>>)
            \o CollectLearnings(Tail(records), field)

learnedPoints(records) == CollectLearnings(records, "whatWeLearned")

buildPoints(records) == CollectLearnings(records, "whatToBuildNext")

\* the elements of a nullable list column over all records, in the order
\* the nested forEach visits them
RECURSIVE Visit(_, _)
Visit(records, column) ==
  IF records = <<>> THEN <<>>
  ELSE Elements(Head(records)[column]) \o Visit(Tail(records), column)

\* variant: a point is counted once per call, whatever was counted before
CountPainPoint_Overwriting(counts, pp) ==
  IF ~Truthy(pp.point) THEN counts
  ELSE IF HasKey(counts, pp.point)
    THEN [counts EXCEPT ![KeyIndex(counts, pp.point)].count = 1]
    ELSE Append(counts, [key |-> pp.point, count |-> 1, severities |-> <<>>])

\* the body of the inner forEach over pain_points
CountPainPoint(counts, pp) ==
  IF ~Truthy(pp.point) THEN counts
  ELSE LET created ==
             IF HasKey(counts, pp.point) THEN counts
             ELSE Append(counts,
                         [key |-> pp.point, count |-> 0, severities |-> <<>>])
           k == KeyIndex(created, pp.point)
       IN [created EXCEPT
             ![k].count = @ + 1,
             ![k].severities =
                IF pp.severity # "" THEN Append(@, pp.severity) ELSE @]

RECURSIVE CountPainPoints(_, _)
CountPainPoints(counts, pps) ==
  IF pps = <<>> THEN counts
  ELSE CountPainPoints(CountPainPoint(counts, Head(pps)), Tail(pps))

painPointCounts(records) == CountPainPoints(<<>>, Visit(records, "pain_points"))

\* Object.entries(painPointCounts)
PainEntries(records) == ObjectEntries(painPointCounts(records))

\* .map(([point, data]) => ({point, responses, frequency}))
MapPainEntries(entries, total) ==
  [n \in 1..Len(entries) |->
     [point |-> entries[n].key,
      responses |-> entries[n].count,
      frequency |-> Percentage(entries[n].count, total)]]

aggregatedPains(records) ==
  SliceFirst(SortByResponses(MapPainEntries(PainEntries(records), Len(records))),
             DisplayLimit)

\* the body of the inner forEach over product_ideas
CountFeature(counts, idea) ==
  IF ~Truthy(idea.idea) THEN counts
  ELSE IF HasKey(counts, idea.idea)
    THEN [counts EXCEPT ![KeyIndex(counts, idea.idea)].count = @ + 1]
    ELSE Append(counts, [key |-> idea.idea, count |-> 0 + 1])

RECURSIVE CountFeatures(_, _)
CountFeatures(counts, ideas) ==
  IF ideas = <<>> THEN counts
  ELSE CountFeatures(CountFeature(counts, Head(ideas)), Tail(ideas))

featureCounts(records) == CountFeatures(<<>>, Visit(records, "product_ideas"))

\* .map(([feature, count]) => ({feature, responses, frequency}))
MapFeatureEntries(entries, total) ==
  [n \in 1..Len(entries) |->
     [feature |-> entries[n].key,
      responses |-> entries[n].count,
      frequency |-> Percentage(entries[n].count, total)]]

\* variant: the feature table keeps one entry less than the pain-point table
aggregatedFeatures_Shorter(records) ==
  SliceFirst(SortByResponses(MapFeatureEntries(
               ObjectEntries(featureCounts(records)), Len(records))),
             DisplayLimit - 1)

aggregatedFeatures(records) ==
  SliceFirst(SortByResponses(MapFeatureEntries(
               ObjectEntries(featureCounts(records)), Len(records))),
             DisplayLimit)

\* the quotes with a text, with the project title and the respondent
RECURSIVE CollectQuotes(_)
CollectQuotes(records) ==
  IF records = <<>> THEN <<>>
  ELSE LET i == Head(records)
           qs == Elements(i.quotes)
           shown(q) ==
             [quote |-> q.quote,
              speaker |-> q.speaker,
              project_title |-> IF Truthy(ProjectTitleOf(i))
                                  THEN ProjectTitleOf(i) ELSE UnknownProject,
              respondent |-> IF q.speaker = UserSpeaker
                               THEN Interviewee ELSE q.speaker]
           kept == SelectSeq(qs, LAMBDA q : Truthy(q.quote))
       IN [n \in 1..Len(kept) |-> shown(kept[n])] \o CollectQuotes(Tail(records))

\* one key insight per record with a summary_text, of the first 5 records
RECURSIVE CollectKeyInsights(_)
CollectKeyInsights(records) ==
  IF records = <<>> THEN <<>>
  ELSE LET i == Head(records)
           title == IF Truthy(ProjectTitleOf(i)) THEN {ProjectTitleOf(i)} ELSE {}
           entry ==
             [type |-> "summary",
              title |-> substring(i.summary_text, 0, KeyInsightTitleLength)
                          \o (IF Len(i.summary_text) > KeyInsightTitleLength
                                THEN Ellipsis ELSE <<>>),
              description |-> IF title # {} THEN The(title) ELSE GeneralInsight,
              impact |-> "medium",
              project |-> IF title # {} THEN The(title) ELSE NotAvailable,
              responses |-> 1]
       IN (IF Truthy(i.summary_text) THEN <<entry>> ELSE <<>>)
            \o CollectKeyInsights(Tail(records))

\* the string a + makes of its left operand: String(undefined) for undefined
StringOf(optional) ==
  IF optional = {} THEN UndefinedAsString ELSE The(optional)

\* learnedPoints[0]?.substring(0,50)
\*   + (learnedPoints[0]?.length > 50 ? '...' : '') || "N/A"
KeyInsightText(learned) ==
  LET first == IF learned = <<>> THEN {} ELSE {learned[1]}
      head == IF first = {} THEN {}
              ELSE {substring(The(first), 0, KeyInsightTextLength)}
      tail == IF first # {} /\ Len(The(first)) > KeyInsightTextLength
                THEN Ellipsis ELSE <<>>
      sum == StringOf(head) \o tail
  IN IF Truthy(sum) THEN sum ELSE NotAvailable

\* aggregatedPains[0]?.point || "N/A"
TopPainPointText(pains) ==
  IF pains # <<>> /\ Truthy(pains[1].point) THEN pains[1].point ELSE NotAvailable

\* variant: the early return leaves the counters as they are
EmptyOverviewStats_Stale == overviewStats

\* setOverviewStats of the early return
EmptyOverviewStats ==
  [totalInterviews |-> 0,
   topPainPointText |-> NotAvailable,
   keyInsightText |-> NotAvailable]

\* setOverviewStats at the end of processDataForDisplay
OverviewStats(records, pains, learned) ==
  [totalInterviews |-> Len(records),
   topPainPointText |-> TopPainPointText(pains),
   keyInsightText |-> KeyInsightText(learned)]

\* the state setters processDataForDisplay calls
processDataForDisplay(records) ==
  IF records = <<>>
    THEN /\ overviewStats' = EmptyOverviewStats
         /\ UNCHANGED <<executiveSummary, topPainPoints, topFeatureRequests,
                        displayQuotes, displayKeyInsights>>
    ELSE /\ executiveSummary' =
              [learned |-> SliceFirst(learnedPoints(records), DisplayLimit),
               build |-> SliceFirst(buildPoints(records), DisplayLimit)]
         /\ topPainPoints' = aggregatedPains(records)
         /\ topFeatureRequests' = aggregatedFeatures(records)
         /\ displayQuotes' = SliceFirst(CollectQuotes(records), DisplayLimit)
         /\ displayKeyInsights' =
              CollectKeyInsights(SliceFirst(records, DisplayLimit))
         /\ overviewStats' =
              OverviewStats(records, topPainPoints', learnedPoints(records))

(***************************************************************************)
(* The analytics page: effect, fetch and what is rendered.                 *)
(***************************************************************************)
\* calls of fetchAndProcessInsights awaiting the select at one time
MaxFetchesInFlight == 2
\* rows in a response of the select, for the page as a whole
MaxFetchedRecords == 1
\* rows in a response of the select, for processDataForDisplay alone
MaxRecords == 6

interviewVars == <<clientVars, storeVars, controlVars, observationVars>>

displayVars ==
  <<executiveSummary, topPainPoints, topFeatureRequests, displayQuotes,
    displayKeyInsights, overviewStats>>

\* [user, session, authLoading, navigate]: user is the session's user
AuthEffectDeps == <<session, authLoading>>

AuthEffectPending ==
  location = "/analytics" /\ AuthEffectDeps # authEffectDeps

\* which of the four returns of the component renders
ViewShown ==
  IF authLoading \/ session = NoSession THEN "auth"
  ELSE IF analyticsIsLoading THEN "loading"
  ELSE IF analyticsError # NULL THEN "error"
  ELSE "aggregate"

\* [...new Set(allInsights.map(i => i.project_id))].length
TotalProjects ==
  Cardinality({allInsights[n].project_id : n \in 1..Len(allInsights)})

\* fetchAndProcessInsights up to its await
fetchAndProcessInsights ==
  IF session = NoSession
    THEN UNCHANGED <<analyticsIsLoading, analyticsError, fetchesInFlight>>
    ELSE /\ analyticsIsLoading' = TRUE
         /\ analyticsError' = NULL
         /\ fetchesInFlight' = fetchesInFlight + 1

\* useAuth has read the stored session: somebody is signed in, or nobody
authResolved ==
  /\ location = "/analytics"
  /\ authLoading
  /\ authLoading' = FALSE
  /\ session' \in {NoSession, 1}
  /\ UNCHANGED <<analyticsIsLoading, analyticsError, allInsights, displayVars,
                 location, authEffectDeps, fetchesInFlight, lastFetch>>
  /\ UNCHANGED <<interviewVars, dashboardVars, webhookVars>>

\* the auth client has refreshed the token: useAuth gives a new session
sessionRefreshed ==
  /\ location = "/analytics"
  /\ ~authLoading
  /\ session # NoSession
  /\ ~AuthEffectPending
  /\ fetchesInFlight < MaxFetchesInFlight
  /\ session' = IF session = 1 THEN 2 ELSE 1
  /\ UNCHANGED <<authLoading, analyticsIsLoading, analyticsError, allInsights,
                 displayVars, location, authEffectDeps, fetchesInFlight,
                 lastFetch>>
  /\ UNCHANGED <<interviewVars, dashboardVars, webhookVars>>

\* the effect on [user, session, authLoading, navigate]
useEffect_auth ==
  /\ AuthEffectPending
  /\ authEffectDeps' = AuthEffectDeps
  /\ IF ~authLoading /\ session = NoSession
       THEN /\ location' = "/"
            /\ UNCHANGED <<analyticsIsLoading, analyticsError, fetchesInFlight>>
       ELSE /\ fetchAndProcessInsights
            /\ UNCHANGED location
  /\ UNCHANGED <<authLoading, session, allInsights, displayVars, lastFetch>>
  /\ UNCHANGED <<interviewVars, dashboardVars, webhookVars>>

\* the Try Again button of the error view
ClickTryAgain ==
  /\ location = "/analytics"
  /\ ViewShown = "error"
  /\ ~AuthEffectPending
  /\ fetchesInFlight < MaxFetchesInFlight
  /\ fetchAndProcessInsights
  /\ UNCHANGED <<authLoading, session, allInsights, displayVars, location,
                 authEffectDeps, lastFetch>>
  /\ UNCHANGED <<interviewVars, dashboardVars, webhookVars>>

FailedToLoad == "Failed to load analytics data."
DbErrorMessage == "db error"

\* what the select resolves with: {data, error}; data is null ({}) or the
\* rows; the error object is or is not an instance of Error, depending on
\* the client library's version
SelectResponses(lists) ==
  {[error |-> {[instanceOfError |-> b, message |-> DbErrorMessage]},
    data |-> {}] : b \in BOOLEAN}
  \cup {[error |-> {}, data |-> {}]}
  \cup {[error |-> {}, data |-> {l}] : l \in lists}

\* variant: the catch block only logs
FetchCatch_Silent(err) ==
  /\ lastFetch' = "failed"
  /\ UNCHANGED <<analyticsError, allInsights, displayVars>>

\* the catch block of fetchAndProcessInsights
FetchCatch(err) ==
  /\ analyticsError' = IF err.instanceOfError THEN err.message ELSE FailedToLoad
  /\ lastFetch' = "failed"
  /\ UNCHANGED <<allInsights, displayVars>>

\* the select resolves: the rest of the try block, or the catch block, and
\* the finally block
fetchAndProcessInsights_resolved(response) ==
  /\ fetchesInFlight > 0
  /\ fetchesInFlight' = fetchesInFlight - 1
  /\ IF response.error # {}
       THEN FetchCatch(The(response.error))
       ELSE LET rows == Elements(response.data)
            IN /\ allInsights' = rows
               /\ processDataForDisplay(rows)
               /\ lastFetch' = "ok"
               /\ UNCHANGED analyticsError
  /\ analyticsIsLoading' = FALSE
  /\ UNCHANGED <<authLoading, session, location, authEffectDeps>>
  /\ UNCHANGED <<interviewVars, dashboardVars, webhookVars>>

selectResolved ==
  \E response \in SelectResponses(RecordLists(MaxFetchedRecords)) :
     fetchAndProcessInsights_resolved(response)

NextAnalytics ==
  \/ authResolved
  \/ sessionRefreshed
  \/ useEffect_auth
  \/ ClickTryAgain
  \/ selectResolved

SpecAnalytics == Init /\ [][NextAnalytics]_vars

(***************************************************************************)
(* processDataForDisplay on its own: the page up to the first response of  *)
(* the select, which is drawn from the row lists of up to MaxRecords rows. *)
(***************************************************************************)
firstSelectResolved ==
  /\ lastFetch = "none"
  /\ \E response \in SelectResponses(RecordLists(MaxRecords)) :
        fetchAndProcessInsights_resolved(response)

NextAggregate ==
  \/ authResolved
  \/ useEffect_auth
  \/ firstSelectResolved

SpecAggregate == Init /\ [][NextAggregate]_vars

(***************************************************************************)
(* The dashboard page: effect, fetchData and the projects tab.  The dates  *)
(* of a project (last_activity_display) are left out.                      *)
(***************************************************************************)
\* calls of fetchData in flight at one time
MaxFetchDataCalls == 2
\* rows in a response of the insights select
MaxRecentInsights == 1

\* [user, session, authLoading, navigate]: user is the session's user
DashboardEffectDeps == <<dashboardAuth.session, dashboardAuth.loading>>

DashboardEffectPending ==
  dashboardLocation = "/dashboard" /\ DashboardEffectDeps # dashboardEffectDeps

\* what the projects tab renders: the page's loader while nobody is known
\* to be signed in, otherwise each card whose condition holds
ProjectsTabShows ==
  IF dashboardAuth.loading \/ dashboardAuth.session = NoSession
    THEN {"auth"}
    ELSE {card \in {"loading", "error", "empty", "list"} :
            \/ card = "loading" /\ projectsLoading
            \/ card = "error" /\ projectsError # NULL
            \/ /\ card = "empty"
               /\ ~projectsLoading /\ projectsError = NULL /\ projects = <<>>
            \/ /\ card = "list"
               /\ ~projectsLoading /\ projectsError = NULL /\ projects # <<>>}

\* the lists the projects select can return
ProjectLists == {<<>>, <<[id |-> 1, title |-> ProjectName]>>}

\* the row the subscriptions select can return
SubscriptionRows == {[plan_type |-> "starter", status |-> "active"]}

FailedToFetchProjects == "Failed to fetch projects."
FailedToFetchInsights == "Failed to fetch insights."

PainPointPrefix ==
  <<"P", "a", "i", "n", " ", "p", "o", "i", "n", "t", ":", " ">>
NoSummaryAvailable ==
  <<"N", "o", " ", "s", "u", "m", "m", "a", "r", "y", " ", "a", "v", "a", "i",
    "l", "a", "b", "l", "e">>

\* the map over insightsData
FormattedInsights(rows) ==
  [n \in 1..Len(rows) |->
     LET pains == Elements(rows[n].pain_points)
     IN [project_id |-> rows[n].project_id,
         project_title |->
           IF Truthy(ProjectTitleOf(rows[n]))
             THEN ProjectTitleOf(rows[n]) ELSE UnknownProject,
         summary_text |->
           IF Truthy(rows[n].summary_text) THEN rows[n].summary_text
           ELSE IF pains # <<>> /\ Truthy(pains[1].point)
             THEN PainPointPrefix \o pains[1].point
             ELSE NoSummaryAvailable,
         insight_type |-> IF pains # <<>> THEN "pain" ELSE "summary"]]

\* a sequence without its k-th element
RemoveAt(seq, k) == SubSeq(seq, 1, k - 1) \o SubSeq(seq, k + 1, Len(seq))

\* fetchData up to its first await; projectsLoading is the value of the
\* render whose effect makes the call
fetchData ==
  IF dashboardAuth.session = NoSession
    THEN UNCHANGED <<projectsLoading, projectsError, dashboardInsightsLoading,
                     dashboardInsightsError, fetchDataCalls>>
    ELSE /\ projectsLoading' = TRUE
         /\ dashboardInsightsLoading' = TRUE
         /\ projectsError' = NULL
         /\ dashboardInsightsError' = NULL
         /\ fetchDataCalls' =
              Append(fetchDataCalls,
                     [pc |-> "projects", projectsLoading |-> projectsLoading,
                      projectsData |-> <<>>])

\* useAuth has read the stored session: somebody is signed in, or nobody
dashboardAuthResolved ==
  /\ dashboardLocation = "/dashboard"
  /\ dashboardAuth.loading
  /\ \E s \in {NoSession, 1} :
        dashboardAuth' = [loading |-> FALSE, session |-> s]
  /\ UNCHANGED <<projects, projectsLoading, projectsError, recentInsights,
                 dashboardInsightsLoading, dashboardInsightsError,
                 subscription, dashboardLocation, dashboardEffectDeps,
                 fetchDataCalls, lastProjectsFetch>>
  /\ UNCHANGED <<interviewVars, analyticsVars, webhookVars>>

\* the auth client has refreshed the token: useAuth gives a new session
dashboardSessionRefreshed ==
  /\ dashboardLocation = "/dashboard"
  /\ ~dashboardAuth.loading
  /\ dashboardAuth.session # NoSession
  /\ ~DashboardEffectPending
  /\ Len(fetchDataCalls) < MaxFetchDataCalls
  /\ dashboardAuth' =
       [dashboardAuth EXCEPT !.session = IF @ = 1 THEN 2 ELSE 1]
  /\ UNCHANGED <<projects, projectsLoading, projectsError, recentInsights,
                 dashboardInsightsLoading, dashboardInsightsError,
                 subscription, dashboardLocation, dashboardEffectDeps,
                 fetchDataCalls, lastProjectsFetch>>
  /\ UNCHANGED <<interviewVars, analyticsVars, webhookVars>>

\* the effect on [user, session, authLoading, navigate]
useEffect_fetchData ==
  /\ DashboardEffectPending
  /\ dashboardEffectDeps' = DashboardEffectDeps
  /\ IF ~dashboardAuth.loading /\ dashboardAuth.session = NoSession
       THEN /\ dashboardLocation' = "/"
            /\ UNCHANGED <<projectsLoading, projectsError,
                           dashboardInsightsLoading, dashboardInsightsError,
                           fetchDataCalls>>
       ELSE /\ fetchData
            /\ UNCHANGED dashboardLocation
  /\ UNCHANGED <<dashboardAuth, projects, recentInsights, subscription,
                 lastProjectsFetch>>
  /\ UNCHANGED <<interviewVars, analyticsVars, webhookVars>>

\* the catch and finally blocks of fetchData
FetchDataCatch(call, err) ==
  /\ projectsError' =
       IF call.projectsLoading THEN projectsError
       ELSE IF err.instanceOfError THEN err.message
       ELSE FailedToFetchProjects
  /\ dashboardInsightsError' =
       IF err.instanceOfError THEN err.message ELSE FailedToFetchInsights
  /\ projectsLoading' = FALSE
  /\ dashboardInsightsLoading' = FALSE

\* a state update of a resolved await is rendered after a pending effect
\* has run
FetchDataAt(k, pc) ==
  /\ dashboardLocation = "/dashboard"
  /\ ~DashboardEffectPending
  /\ k \in 1..Len(fetchDataCalls)
  /\ fetchDataCalls[k].pc = pc

\* the select of the projects resolves
fetchData_projectsSelected(k, response) ==
  /\ FetchDataAt(k, "projects")
  /\ IF response.error # {}
       THEN /\ FetchDataCatch(fetchDataCalls[k], The(response.error))
            /\ fetchDataCalls' = RemoveAt(fetchDataCalls, k)
            /\ lastProjectsFetch' = "failed"
            /\ UNCHANGED projects
       ELSE /\ lastProjectsFetch' = "ok"
            /\ IF response.data = {}
                 THEN /\ projects' = <<>>
                      /\ fetchDataCalls' =
                           [fetchDataCalls EXCEPT ![k].pc = "subscription"]
                 ELSE /\ fetchDataCalls' =
                           [fetchDataCalls EXCEPT
                              ![k].pc = "counts",
                              ![k].projectsData = The(response.data)]
                      /\ UNCHANGED projects
            /\ UNCHANGED <<projectsLoading, projectsError,
                           dashboardInsightsLoading, dashboardInsightsError>>
  /\ UNCHANGED <<dashboardAuth, recentInsights, subscription,
                 dashboardLocation, dashboardEffectDeps>>
  /\ UNCHANGED <<interviewVars, analyticsVars, webhookVars>>

\* Promise.all over the projects resolves: countError ? 0 : count || 0
fetchData_countsResolved(k, count) ==
  /\ FetchDataAt(k, "counts")
  /\ projects' =
       [n \in 1..Len(fetchDataCalls[k].projectsData) |->
          [id |-> fetchDataCalls[k].projectsData[n].id,
           title |-> fetchDataCalls[k].projectsData[n].title,
           responses_count |-> count]]
  /\ fetchDataCalls' = [fetchDataCalls EXCEPT ![k].pc = "subscription"]
  /\ UNCHANGED <<dashboardAuth, projectsLoading, projectsError,
                 recentInsights, dashboardInsightsLoading,
                 dashboardInsightsError, subscription, dashboardLocation,
                 dashboardEffectDeps, lastProjectsFetch>>
  /\ UNCHANGED <<interviewVars, analyticsVars, webhookVars>>

\* the select of the subscription resolves
fetchData_subscriptionSelected(k, response) ==
  /\ FetchDataAt(k, "subscription")
  /\ subscription' =
       IF response.error = {} /\ response.data # {}
         THEN response.data ELSE subscription
  /\ fetchDataCalls' = [fetchDataCalls EXCEPT ![k].pc = "insights"]
  /\ UNCHANGED <<dashboardAuth, projects, projectsLoading, projectsError,
                 recentInsights, dashboardInsightsLoading,
                 dashboardInsightsError, dashboardLocation,
                 dashboardEffectDeps, lastProjectsFetch>>
  /\ UNCHANGED <<interviewVars, analyticsVars, webhookVars>>

\* the select of the recent insights resolves
fetchData_insightsSelected(k, response) ==
  /\ FetchDataAt(k, "insights")
  /\ fetchDataCalls' = RemoveAt(fetchDataCalls, k)
  /\ IF response.error # {}
       THEN /\ FetchDataCatch(fetchDataCalls[k], The(response.error))
            /\ UNCHANGED recentInsights
       ELSE /\ recentInsights' = FormattedInsights(Elements(response.data))
            /\ projectsLoading' = FALSE
            /\ dashboardInsightsLoading' = FALSE
            /\ UNCHANGED <<projectsError, dashboardInsightsError>>
  /\ UNCHANGED <<dashboardAuth, projects, subscription, dashboardLocation,
                 dashboardEffectDeps, lastProjectsFetch>>
  /\ UNCHANGED <<interviewVars, analyticsVars, webhookVars>>

\* Try Again of the error card: window.location.reload()
ClickReload ==
  /\ "error" \in ProjectsTabShows
  /\ ~DashboardEffectPending
  /\ dashboardAuth' = [loading |-> TRUE, session |-> NoSession]
  /\ projects' = <<>>
  /\ projectsLoading' = TRUE
  /\ projectsError' = NULL
  /\ recentInsights' = <<>>
  /\ dashboardInsightsLoading' = TRUE
  /\ dashboardInsightsError' = NULL
  /\ subscription' = {}
  /\ dashboardEffectDeps' = NotRun
  /\ fetchDataCalls' = <<>>
  /\ lastProjectsFetch' = "none"
  /\ UNCHANGED dashboardLocation
  /\ UNCHANGED <<interviewVars, analyticsVars, webhookVars>>

NextDashboard ==
  \/ dashboardAuthResolved
  \/ dashboardSessionRefreshed
  \/ useEffect_fetchData
  \/ \E k \in 1..MaxFetchDataCalls :
        \E response \in SelectResponses(ProjectLists) :
           fetchData_projectsSelected(k, response)
  \/ \E k \in 1..MaxFetchDataCalls : \E count \in 0..1 :
        fetchData_countsResolved(k, count)
  \/ \E k \in 1..MaxFetchDataCalls :
        \E response \in SelectResponses(SubscriptionRows) :
           fetchData_subscriptionSelected(k, response)
  \/ \E k \in 1..MaxFetchDataCalls :
        \E response \in SelectResponses(RecordLists(MaxRecentInsights)) :
           fetchData_insightsSelected(k, response)
  \/ ClickReload

SpecDashboard == Init /\ [][NextDashboard]_vars

(***************************************************************************)
(* The billing webhook.  Stripe delivers events in any order and the       *)
(* function serves requests concurrently; a request whose signature does   *)
(* not verify, or whose Stripe lookups throw, is answered 400 and changes  *)
(* nothing.  A request in webhookCalls carries `late`: whether its event   *)
(* was delivered after a processed deletion had canceled the user's row.   *)
(***************************************************************************)
\* requests at their database call at one time
MaxWebhookCalls == 2

\* subscription.status as Stripe reports it
StripeStatuses == {"active", "past_due", "canceled"}

\* the rows .eq('stripe_customer_id', customerId) selects
RowsOfCustomer(customerId) ==
  {u \in Users : subscriptions[u].stripe_customer_id = customerId}

\* checkout.session.completed up to the upsert: the subscription's status
\* is retrieved from Stripe
checkoutSessionCompleted(mode, reference, customerId, status) ==
  /\ Cardinality(webhookCalls) < MaxWebhookCalls
  /\ IF mode = "subscription" /\ reference \in Users
       THEN webhookCalls' =
              webhookCalls \cup
                {[type |-> "checkout", userId |-> reference,
                  customerId |-> customerId, status |-> status,
                  late |-> FALSE]}
       ELSE UNCHANGED webhookCalls
  /\ UNCHANGED <<subscriptions, canceledByDeletion>>
  /\ UNCHANGED <<interviewVars, analyticsVars, dashboardVars>>

\* the upsert on user_id resolves: the row is written, or the table answers
\* with an error and the response is 500
checkoutSessionCompleted_upserted(call) ==
  /\ call \in webhookCalls
  /\ call.type = "checkout"
  /\ webhookCalls' = webhookCalls \ {call}
  /\ \/ /\ subscriptions' =
             [subscriptions EXCEPT ![call.userId] =
                [stripe_customer_id |-> call.customerId,
                 status |-> call.status]]
        /\ canceledByDeletion' = canceledByDeletion \ {call.userId}
     \/ UNCHANGED <<subscriptions, canceledByDeletion>>
  /\ UNCHANGED <<interviewVars, analyticsVars, dashboardVars>>

\* customer.subscription.updated up to the update: .single() gives the row
\* when exactly one row has the customer
subscriptionUpdated(customerId, status) ==
  /\ Cardinality(webhookCalls) < MaxWebhookCalls
  /\ IF Cardinality(RowsOfCustomer(customerId)) = 1
       THEN LET userId == The(RowsOfCustomer(customerId))
            IN webhookCalls' =
                 webhookCalls \cup
                   {[type |-> "updated", userId |-> userId,
                     customerId |-> customerId, status |-> status,
                     late |-> userId \in canceledByDeletion]}
       ELSE UNCHANGED webhookCalls
  /\ UNCHANGED <<subscriptions, canceledByDeletion>>
  /\ UNCHANGED <<interviewVars, analyticsVars, dashboardVars>>

\* the update .eq('user_id', ...) resolves
subscriptionUpdated_updated(call) ==
  /\ call \in webhookCalls
  /\ call.type = "updated"
  /\ webhookCalls' = webhookCalls \ {call}
  /\ \/ subscriptions' =
          [subscriptions EXCEPT ![call.userId].status = call.status]
     \/ UNCHANGED subscriptions
  /\ UNCHANGED canceledByDeletion
  /\ UNCHANGED <<interviewVars, analyticsVars, dashboardVars>>

\* customer.subscription.deleted: the update by customer resolves
subscriptionDeleted(customerId) ==
  /\ \/ /\ subscriptions' =
             [u \in Users |->
                IF u \in RowsOfCustomer(customerId)
                  THEN [subscriptions[u] EXCEPT !.status = "canceled"]
                  ELSE subscriptions[u]]
        /\ canceledByDeletion' =
             canceledByDeletion \cup RowsOfCustomer(customerId)
     \/ UNCHANGED <<subscriptions, canceledByDeletion>>
  /\ UNCHANGED webhookCalls
  /\ UNCHANGED <<interviewVars, analyticsVars, dashboardVars>>

NextWebhook ==
  \/ \E mode \in {"subscription", "payment"}, reference \in Users \cup {0},
        customerId \in Customers, status \in StripeStatuses :
        checkoutSessionCompleted(mode, reference, customerId, status)
  \/ \E call \in webhookCalls : checkoutSessionCompleted_upserted(call)
  \/ \E customerId \in Customers, status \in StripeStatuses :
        subscriptionUpdated(customerId, status)
  \/ \E call \in webhookCalls : subscriptionUpdated_updated(call)
  \/ \E customerId \in Customers : subscriptionDeleted(customerId)

SpecWebhook == Init /\ [][NextWebhook]_vars

(***************************************************************************)
(* Properties.                                                             *)
(***************************************************************************)
LastMessage == messages[Len(messages)]

\* no start and no send is in flight and the page accepts a reply
AcceptsReply ==
  /\ InputEnabled
  /\ sendPc = "idle"
  /\ currentInterviewId # NoInterviewId

SessionRows(id) == {i \in DOMAIN insights : insights[i].interview_id = id}

\* C1: a step that sets interviewConcluded happens only with at least 4
\* respondent messages in the list or with a just-produced agent reply that
\* holds the closing phrase (RawClosing is the only such reply here).
C1_NeverConcludesEarly ==
  [][(~interviewConcluded /\ interviewConcluded') =>
       \/ UserMessageCount(messages') >= 4
       \/ /\ messages'[Len(messages')].type = "ai"
          /\ messages'[Len(messages')].content = RawClosing]_vars

\* a session concluded by the closing phrase before the 4th respondent message
C1_Witness ==
  /\ interviewConcluded
  /\ UserMessageCount(messages) < 4
  /\ LastMessage.content = RawClosing

\* C2 as stated: once a send has ended with 4 or more respondent messages
\* the session is concluded.
C2_Original ==
  (sendPc = "idle" /\ UserMessageCount(messages) >= 4) => interviewConcluded

\* C2 amended: a send whose generation call succeeded and that ends with 4 or
\* more respondent messages concludes the session; a session is in progress
\* with 4 or more respondent messages only after a failed generation call,
\* with the apology as its last message.
C2_ConcludesOnSuccessfulFourth ==
  /\ [][(sendPc = "insertAi" /\ sendPc' # "insertAi"
           /\ UserMessageCount(messages') >= 4) => interviewConcluded']_vars
  /\ []((sendPc = "idle" /\ UserMessageCount(messages) >= 4
           /\ ~interviewConcluded)
          => (genFailures > 0 /\ LastMessage.content = ApologyText))

\* a session concluded by its 5th respondent message after a failed send
C2_Witness ==
  /\ interviewConcluded
  /\ sendPc = "idle"
  /\ UserMessageCount(messages) = 5

\* C3: a handleSendMessage call with a non-blank text on a concluded session
\* surfaces an error.
C3_RejectedWithError ==
  ( /\ lastSendCall.outcome = "returned"
    /\ lastSendCall.concluded
    /\ lastSendCall.text # EmptyText ) => error # NULL

C5_OneDirectional ==
  [][/\ interviewConcluded =>
          /\ interviewConcluded'
          /\ interviewStarted'
          /\ currentInterviewId' = currentInterviewId
     /\ \A id \in DOMAIN interviews :
          interviews[id].status = "completed" =>
             /\ id \in DOMAIN interviews'
             /\ interviews'[id].status = "completed"
     /\ (currentInterviewId # NoInterviewId /\ UserMessageCount(messages) >= 1)
          => /\ interviewStarted'
             /\ currentInterviewId' = currentInterviewId]_vars

\* a concluded session after its status update and its extraction have ended
C5_Witness ==
  /\ interviewConcluded
  /\ sendPc = "idle"
  /\ interviews[currentInterviewId].status = "completed"
  /\ extractionAttempts = 1
  /\ insightsPc = "idle"

\* C6: the step in which the generation call fails appends exactly the
\* apology to the local list, writes nothing to the store, leaves the
\* session in progress and leaves the page accepting a further reply.
C6_FailedGenerationRecovers ==
  [][(sendPc = "invoke" /\ sendPc' = "idle") =>
       /\ messages' = Append(messages, Message("ai", ApologyText))
       /\ conversations' = conversations
       /\ interviews' = interviews
       /\ ~interviewConcluded'
       /\ AcceptsReply']_vars

\* the 4th respondent message met a failed generation call
C6_Witness ==
  /\ sendPc = "idle"
  /\ UserMessageCount(messages) = 4
  /\ LastMessage.content = ApologyText
  /\ ~interviewConcluded
  /\ AcceptsReply

\* C7 as stated: the reply substituted for an empty completion is never in
\* the persisted transcript and never concludes the session.
C7_Original ==
  /\ \A i \in DOMAIN conversations : conversations[i].content # EdgeFallback
  /\ (Len(messages) > 0 /\ LastMessage.content = EdgeFallback)
       => ~interviewConcluded

\* C7 amended: an empty or blank completion is answered with the fixed reply
\* of the edge function; the send goes on as for any reply: the reply is
\* handed to the transcript store and the session is concluded exactly when
\* the list then holds 4 or more respondent messages.
C7_EmptyReplyIsOrdinaryTurn ==
  /\ [](InterviewerReply(NoContent) = EdgeFallback
          /\ InterviewerReply(BlankText) = EdgeFallback)
  /\ [][(sendPc = "insertAi" /\ sendCtx.aiMsgContent = EdgeFallback
           /\ sendPc' # "insertAi") =>
          /\ LastMessage = Message("ai", EdgeFallback)
          /\ messages' = messages
          /\ \/ conversations' =
                  Append(conversations,
                         [interview_id |-> currentInterviewId,
                          sender_type |-> "ai", content |-> EdgeFallback])
             \/ /\ conversations' = conversations
                /\ appendErrors' = appendErrors + 1
          /\ interviewConcluded' <=> (UserMessageCount(messages) >= 4)]_vars

\* the substituted reply is the persisted last turn of a concluded session
C7_Witness ==
  /\ interviewConcluded
  /\ LastMessage.content = EdgeFallback
  /\ conversations # <<>>
  /\ conversations[Len(conversations)].content = EdgeFallback

InsightKeys ==
  {"executiveSummary", "painPoints", "notableQuotes", "objections",
   "productIdeas"}

\* C8: an analysis output that is a JSON object without the five keys of the
\* output contract adds no row to the insights table and is not reported as
\* a success.
C8_InvalidShapeWritesNothing ==
  [][(insightsPc = "save" /\ DOMAIN insightsCtx.insights # InsightKeys)
       => (insights' = insights /\ ~insightsSuccess')]_vars

\* C9: every insight row respects the list caps of the output contract.
C9_ListCaps ==
  \A i \in DOMAIN insights :
     /\ Len(insights[i].pain_points) <= 5
     /\ Len(insights[i].quotes) <= 5
     /\ Len(insights[i].objections) <= 3
     /\ Len(insights[i].product_ideas) <= 3

\* the request processInsights sends to the function
InsightsRequest ==
  [productIdea |-> ProductIdea(The(projectDetails)),
   fullConversation |-> insightsCtx.fullConversation]

\* C10: a run of processInsights that ends before the save (from the
\* transcript read or from the function call) leaves the insights table as
\* it was, with insightsError set, insightsSuccess false and insightsLoading
\* false; the function call of a run ends so when the transcript is empty
\* and, for the request at hand, whenever the completion throws, yields no
\* content or yields text that is not JSON; a session whose processing ended
\* in an error has no insight row.
C10_FailureBeforeSaveWritesNothing ==
  /\ [][/\ ( /\ insightsPc = "invoke"
             /\ insightsPc' # "invoke"
             /\ insightsCtx.fullConversation = <<>> ) => insightsPc' = "idle"
        /\ (insightsPc \in {"fetchConversation", "invoke"}
              /\ insightsPc' = "idle")
            => /\ insights' = insights
               /\ insightsError' # NULL
               /\ ~insightsSuccess'
               /\ ~insightsLoading']_vars
  /\ [](insightsPc = "invoke" =>
          \A a \in {[kind |-> "throws"], [kind |-> "empty"], [kind |-> "text"]} :
             ~processInterviewInsights(InsightsRequest, a).ok)
  /\ [](insightsError # NULL =>
          /\ SessionRows(currentInterviewId) = {}
          /\ ~insightsSuccess
          /\ ~insightsLoading)

\* processing of a session whose transcript is empty has ended in an error
C10_Witness ==
  /\ interviewConcluded
  /\ conversations = <<>>
  /\ extractorCalls = 1
  /\ insightsPc = "idle"
  /\ insightsError # NULL
  /\ insights = <<>>

(***************************************************************************)
(* Retrying a failed extraction.                                           *)
(***************************************************************************)
\* the events the rendered page takes from the respondent: the start button,
\* the reply input and the send button; the concluded panel renders texts
\* only
UserEvent == ClickStart \/ TypeMessage \/ ClickSend \/ PressEnter

\* the run of processInsights of a concluded session has ended in its catch
\* block
ExtractionFailed ==
  /\ interviewConcluded
  /\ insightsPc = "idle"
  /\ ~insightsLoading
  /\ insightsError # NULL

\* C11: in every state in which the session is concluded and its extraction
\* attempt has ended in an error, some event of the respondent is enabled
\* that starts a new run of processInsights for the session, either at once
\* or by changing a dependency of the effect that runs it.
C11_UserRetriggerable ==
  ExtractionFailed =>
    ENABLED (UserEvent /\ (EffectPending' \/ extractionAttempts' > extractionAttempts))

(***************************************************************************)
(* The aggregate view.                                                     *)
(***************************************************************************)
\* the point texts of the fetched rows in the order of the rows and, within
\* a row, of its list; a pain point without a text is none
RECURSIVE TextsOf(_, _)
TextsOf(items, field) ==
  IF items = <<>> THEN <<>>
  ELSE (IF Head(items)[field] # <<>> THEN <<Head(items)[field]>> ELSE <<>>)
         \o TextsOf(Tail(items), field)

PointTexts == TextsOf(Visit(allInsights, "pain_points"), "point")

IdeaTexts == TextsOf(Visit(allInsights, "product_ideas"), "idea")

Occurrences(texts, t) == Cardinality({n \in 1..Len(texts) : texts[n] = t})

Distinct(texts) == {texts[n] : n \in 1..Len(texts)}

FirstOccurrence(texts, t) == CHOOSE n \in 1..Len(texts) :
                               texts[n] = t /\ \A m \in 1..(n - 1) : texts[m] # t

\* the page shows the aggregate of a non-empty response
AggregateComputed == lastFetch = "ok" /\ allInsights # <<>>

\* ranking is a ranking of texts by the reference: one entry per distinct
\* text, at most 5, each with the number of occurrences of its text and
\* occurrences / rows x 100, ordered by descending count, no left-out text
\* with more occurrences than a kept one
IsReferenceRanking(ranking, name, texts, rows) ==
  /\ Len(ranking) =
       IF Cardinality(Distinct(texts)) < 5 THEN Cardinality(Distinct(texts)) ELSE 5
  /\ \A n \in 1..Len(ranking) :
        /\ ranking[n][name] \in Distinct(texts)
        /\ ranking[n].responses = Occurrences(texts, ranking[n][name])
        /\ ranking[n].frequency.numerator * rows =
             100 * Occurrences(texts, ranking[n][name])
                 * ranking[n].frequency.denominator
        /\ \A m \in 1..(n - 1) :
              /\ ranking[m][name] # ranking[n][name]
              /\ ranking[m].responses >= ranking[n].responses
        /\ \A t \in Distinct(texts) :
              (\A m \in 1..Len(ranking) : ranking[m][name] # t)
                => Occurrences(texts, t) <= ranking[n].responses

C13_TiesInFirstEncounteredOrder ==
  AggregateComputed =>
    \A n \in 1..Len(topPainPoints) : \A m \in 1..(n - 1) :
       topPainPoints[m].responses = topPainPoints[n].responses
         => FirstOccurrence(PointTexts, topPainPoints[m].point)
              < FirstOccurrence(PointTexts, topPainPoints[n].point)

\* rows whose pain points are the rows' feature ideas, text for text
IdeasAsPainPoints(rows) ==
  [n \in 1..Len(rows) |->
     [rows[n] EXCEPT
        !.pain_points =
           IF rows[n].product_ideas = {} THEN {}
           ELSE LET ideas == The(rows[n].product_ideas)
                IN {[k \in 1..Len(ideas) |-> PainPointDB(ideas[k].idea, "")]}]]

C15_ZeroRecords ==
  /\ []((lastFetch = "ok" /\ allInsights = <<>>) =>
          /\ overviewStats.totalInterviews = 0
          /\ TotalProjects = 0
          /\ overviewStats.topPainPointText = NotAvailable
          /\ overviewStats.keyInsightText = NotAvailable)
  /\ [][(fetchesInFlight' < fetchesInFlight /\ lastFetch' = "ok"
           /\ allInsights' = <<>>)
          => analyticsError' = analyticsError]_vars

\* the page shows the counters of a response without rows that followed a
\* response with rows
C15_Witness ==
  /\ ViewShown = "aggregate"
  /\ lastFetch = "ok"
  /\ allInsights = <<>>
  /\ topPainPoints # <<>>
  /\ overviewStats.totalInterviews = 0

\* C16: after a response of the select that was no error, every part of the
\* view is what the aggregation of the rows of that response alone gives;
\* without rows the tables and lists are empty and the counters zero or
\* "N/A".
C16_ViewIsFunctionOfLastFetch ==
  lastFetch = "ok" =>
    IF allInsights = <<>>
      THEN /\ executiveSummary = [learned |-> <<>>, build |-> <<>>]
           /\ topPainPoints = <<>>
           /\ topFeatureRequests = <<>>
           /\ displayQuotes = <<>>
           /\ displayKeyInsights = <<>>
           /\ overviewStats = EmptyOverviewStats
      ELSE /\ executiveSummary =
                [learned |-> SliceFirst(learnedPoints(allInsights), 5),
                 build |-> SliceFirst(buildPoints(allInsights), 5)]
           /\ topPainPoints = aggregatedPains(allInsights)
           /\ topFeatureRequests = aggregatedFeatures(allInsights)
           /\ displayQuotes = SliceFirst(CollectQuotes(allInsights), 5)
           /\ displayKeyInsights = CollectKeyInsights(SliceFirst(allInsights, 5))
           /\ overviewStats.totalInterviews = Len(allInsights)
           /\ overviewStats.topPainPointText = TopPainPointText(topPainPoints)

\* the rows that supply the field of key_learnings
Supplying(field) ==
  {n \in 1..Len(allInsights) :
     /\ allInsights[n].key_learnings # {}
     /\ The(allInsights[n].key_learnings)[field] # <<>>}

\* list holds the field of the first 5 supplying rows, row by row
IsRollup(list, field) ==
  /\ Len(list) = IF Cardinality(Supplying(field)) < 5
                   THEN Cardinality(Supplying(field)) ELSE 5
  /\ \A k \in 1..Len(list) :
        \E n \in Supplying(field) :
           /\ Cardinality({m \in Supplying(field) : m < n}) = k - 1
           /\ list[k] = The(allInsights[n].key_learnings)[field]

\* C17: the executive summary holds, for whatWeLearned and for
\* whatToBuildNext, the strings of the first 5 rows that supply the field,
\* in the order of the rows, repeated strings included; a row without the
\* field adds nothing and neither list is longer than 5.
C17_ExecutiveSummaryRollup ==
  AggregateComputed =>
    /\ IsRollup(executiveSummary.learned, "whatWeLearned")
    /\ IsRollup(executiveSummary.build, "whatToBuildNext")
    /\ Len(executiveSummary.learned) <= 5
    /\ Len(executiveSummary.build) <= 5

\* six rows supply a learning, a repeated one among the first five, and
\* some of them supply no next step
C17_Witness ==
  /\ ViewShown = "aggregate"
  /\ Cardinality(Supplying("whatWeLearned")) = 6
  /\ Cardinality(Supplying("whatToBuildNext")) \in 1..4
  /\ Len(executiveSummary.learned) = 5
  /\ executiveSummary.learned[1] = executiveSummary.learned[3]
  /\ executiveSummary.learned[1] # executiveSummary.learned[2]

\* C18: the key-learning counter of a non-empty response is "N/A" when no
\* row supplies whatWeLearned, and otherwise the whatWeLearned of the first
\* supplying row cut to its first 50 characters.
C18_KeyLearningCounter ==
  AggregateComputed =>
    IF Supplying("whatWeLearned") = {}
      THEN overviewStats.keyInsightText = NotAvailable
      ELSE LET first == CHOOSE n \in Supplying("whatWeLearned") :
                          \A m \in Supplying("whatWeLearned") : n <= m
               text == The(allInsights[first].key_learnings).whatWeLearned
           IN overviewStats.keyInsightText =
                SubSeq(text, 1, IF Len(text) < 50 THEN Len(text) ELSE 50)

\* C19: a select that resolves with an error sets the error state and
\* changes nothing of the fetched rows or the view's data, and from then
\* until a select resolves without an error the page renders the error
\* view or the loading view, never the aggregate.
C19_FailedFetchShowsError ==
  /\ [][(fetchesInFlight' < fetchesInFlight /\ lastFetch' = "failed")
          => /\ analyticsError' # NULL
             /\ ~analyticsIsLoading'
             /\ allInsights' = allInsights
             /\ displayVars' = displayVars]_vars
  /\ [](lastFetch = "failed" => ViewShown \in {"error", "loading"})
  /\ []((lastFetch = "failed" /\ ~analyticsIsLoading) => analyticsError # NULL)

\* the error view is rendered while the state still holds the aggregate of
\* an earlier response
C19_Witness ==
  /\ lastFetch = "failed"
  /\ ViewShown = "error"
  /\ fetchesInFlight = 0
  /\ allInsights # <<>>
  /\ topPainPoints # <<>>

(***************************************************************************)
(* The history of a turn-generation request.                               *)
(***************************************************************************)
\* the local turns that precede the reply being sent
TurnsBeforeReply == SubSeq(messages, 1, Len(messages) - 1)

\* C20: while a turn-generation request is out, its history has at most 10
\* turns and is the last min(10, n) of the n local turns that precede the
\* reply, in their order; the reply is the last local turn, travels as
\* userResponse and enters the completion's messages once, after the
\* history.
C20_HistoryIsLastTen ==
  sendPc = "invoke" =>
    LET history == interviewerRequest.conversationHistory
        n == Len(TurnsBeforeReply)
        sent == CompletionMessages(interviewerRequest)
    IN /\ Len(history) <= 10
       /\ Len(history) = IF n < 10 THEN n ELSE 10
       /\ \A k \in 1..Len(history) :
             history[k] = TurnsBeforeReply[n - Len(history) + k]
       /\ messages[Len(messages)] =
            Message("user", interviewerRequest.userResponse)
       /\ Len(sent) = Len(history) + 2
       /\ \A k \in 1..Len(history) : sent[k + 1].content = history[k].content
       /\ sent[Len(sent)] =
            [role |-> "user", content |-> interviewerRequest.userResponse]

\* a request is out for a reply that more than 10 local turns precede: the
\* history has 10 turns and does not start with the opening turn
C20_Witness ==
  /\ sendPc = "invoke"
  /\ Len(TurnsBeforeReply) > 10
  /\ Len(interviewerRequest.conversationHistory) = 10
  /\ interviewerRequest.conversationHistory[1] # messages[1]
  /\ interviewerRequest.conversationHistory[10] = messages[Len(messages) - 1]

(***************************************************************************)
(* The start of a session.                                                 *)
(***************************************************************************)
\* the text the first turn is to have: the guide's first question, or the
\* generated opening line
SeedText ==
  IF The(projectDetails).guideQuestions # <<>>
    THEN The(projectDetails).guideQuestions[1]
    ELSE OpeningLine

\* startInterviewSession has ended without an error and no reply was sent
StartSucceeded ==
  /\ interviewStarted
  /\ startPc = "idle"
  /\ error = NULL
  /\ lastSendCall = NoSendCall

\* C21: after a start that ended without an error there is one session, the
\* local list is the one agent turn with the guide's first question or else
\* the opening line, and the persisted transcript of the session is that
\* one turn.
C21_StartSeedsFirstTurn ==
  StartSucceeded =>
    /\ Len(interviews) = 1
    /\ currentInterviewId = 1
    /\ messages = <<Message("ai", SeedText)>>
    /\ conversations =
         <<[interview_id |-> 1, sender_type |-> "ai", content |-> SeedText]>>

InitializationError == "Could not start interview session."

\* C22: when the insert of the session row has failed, the error is set and
\* its view is shown, the interview is not started, no session id is held,
\* no session row exists, the local list and the transcript are empty, the
\* input is not offered and handleSendMessage returns at its guard.
C22_FailedStartLeavesNotStarted ==
  error = InitializationError =>
    /\ startPc = "idle"
    /\ ~interviewStarted
    /\ ~isTyping
    /\ currentInterviewId = NoInterviewId
    /\ interviews = <<>>
    /\ messages = <<>>
    /\ conversations = <<>>
    /\ ErrorViewShown
    /\ ~StartButtonEnabled
    /\ ~InputEnabled
    /\ SendGuardFails

\* the project and the persona were loaded and the session insert failed
C22_Witness ==
  /\ error = InitializationError
  /\ fetchPc = "done"
  /\ projectDetails # {}
  /\ founderPersona # {}

(***************************************************************************)
(* The transcript and the extraction.                                      *)
(***************************************************************************)
\* the persisted rows of a session, in the order of the store
PersistedTurns(id) ==
  SelectSeq(conversations, LAMBDA r : r.interview_id = id)

\* C23: the conversation handed to process-interview-insights has one turn
\* for every persisted row of the session, in the rows' order; the store is
\* only ever appended to, nothing is appended once the session is concluded,
\* and the reply that concludes the session is the last row unless its
\* insert failed.
C23_ExtractorGetsWholeTranscript ==
  /\ [](insightsPc \in {"invoke", "save"} =>
          LET rows == PersistedTurns(insightsCtx.interviewId)
              given == insightsCtx.fullConversation
          IN /\ Len(given) = Len(rows)
             /\ \A k \in 1..Len(rows) :
                  given[k] = [type |-> IF rows[k].sender_type = "ai"
                                          THEN "ai" ELSE "user",
                              content |-> rows[k].content])
  /\ [][conversations' # conversations =>
          /\ ~interviewConcluded
          /\ Len(conversations') = Len(conversations) + 1
          /\ SubSeq(conversations', 1, Len(conversations)) = conversations]_vars
  /\ [][(~interviewConcluded /\ interviewConcluded'
           /\ appendErrors' = appendErrors) =>
          conversations'[Len(conversations')] =
            [interview_id |-> currentInterviewId, sender_type |-> "ai",
             content |-> LastMessage.content]]_vars

\* the extractor is called with the 9 turns of a session of 4 replies
C23_Witness ==
  /\ insightsPc = "invoke"
  /\ appendErrors = 0
  /\ Len(insightsCtx.fullConversation) = 9
  /\ insightsCtx.fullConversation[9] = LastMessage
  /\ insightsCtx.fullConversation[8].type = "user"

\* C24: while processInsights is running, the status update of the session
\* has ended and the session's row is completed with its completion time.
C24_ExtractionAfterStatusRecorded ==
  insightsPc # "idle" =>
    /\ sendPc # "updateStatus"
    /\ interviews[insightsCtx.interviewId].status = "completed"
    /\ interviews[insightsCtx.interviewId].completed_at

\* C25: while startInterviewSession or handleSendMessage is in flight,
\* isTyping is set and neither the input nor the buttons are offered, and
\* the two are never in flight together; a handleSendMessage call begins
\* with nothing in flight; when it ends, isTyping is cleared and the local
\* list ends with an agent turn.
C25_RepliesOneAtATime ==
  /\ []((sendPc # "idle" \/ startPc # "idle") =>
          /\ isTyping
          /\ ~InputEnabled
          /\ ~SendButtonEnabled
          /\ ~StartButtonEnabled
          /\ (sendPc = "idle" \/ startPc = "idle"))
  /\ [][(sendPc = "idle" /\ sendPc' # "idle") =>
          /\ startPc = "idle"
          /\ ~isTyping
          /\ InputEnabled]_vars
  /\ [][(sendPc # "idle" /\ sendPc' = "idle") =>
          /\ ~isTyping'
          /\ messages'[Len(messages')].type = "ai"]_vars

\* a second reply is in flight, after the first one has got its agent turn
C25_Witness ==
  /\ sendPc = "invoke"
  /\ UserMessageCount(messages) = 2
  /\ Len(messages) = 4
  /\ messages[3].type = "ai"

\* the local list without the apologies of failed generation calls
RECURSIVE WithoutApologies(_)
WithoutApologies(msgs) ==
  IF msgs = <<>> THEN <<>>
  ELSE IF Head(msgs).content = ApologyText
    THEN WithoutApologies(Tail(msgs))
    ELSE <<Head(msgs)>> \o WithoutApologies(Tail(msgs))

\* C27: with no start and no send in flight, the persisted transcript of the
\* session is the local list without its apologies, turn by turn.
C27_TranscriptMirrorsLocalList ==
  (startPc = "idle" /\ sendPc = "idle"
     /\ currentInterviewId # NoInterviewId) =>
    LET rows == PersistedTurns(currentInterviewId)
        turns == WithoutApologies(messages)
    IN /\ Len(rows) = Len(turns)
       /\ \A k \in 1..Len(rows) :
            /\ rows[k].sender_type = turns[k].type
            /\ rows[k].content = turns[k].content

\* the agent turns after the first one that are replies of the function
SuccessfulReplies ==
  Cardinality({k \in 2..Len(messages) :
                 /\ messages[k].type = "ai"
                 /\ messages[k].content # ApologyText})

\* C28: the local list never holds more than 4 replies of the function; once
\* the send that got the 4th has evaluated the termination condition the
\* session is concluded; and while no generation call has failed there are
\* at most 4 respondent turns.
C28_AtMostFourSuccessfulReplies ==
  /\ SuccessfulReplies <= 4
  /\ (SuccessfulReplies = 4 /\ sendPc # "insertAi") => interviewConcluded
  /\ genFailures = 0 => UserMessageCount(messages) <= 4

\* the 4th reply of the function came for the 5th respondent turn
C28_Witness ==
  /\ SuccessfulReplies = 4
  /\ UserMessageCount(messages) = 5
  /\ interviewConcluded
  /\ sendPc = "idle"

(***************************************************************************)
(* The rankings' counts.                                                   *)
(***************************************************************************)
\* the fetched rows that list text t in column c under the key name
RowsMentioning(c, name, t) ==
  {r \in 1..Len(allInsights) :
     \E item \in {Elements(allInsights[r][c])[k] :
                    k \in 1..Len(Elements(allInsights[r][c]))} :
        item[name] = t}

\* C26: in both rankings the responses of an entry is the number of fetched
\* rows that list its text, which is at most the number of rows, and its
\* frequency is at most 100.
C26_ResponsesCountRecords ==
  AggregateComputed =>
    /\ \A n \in 1..Len(topPainPoints) :
         /\ topPainPoints[n].responses =
              Cardinality(RowsMentioning("pain_points", "point",
                                         topPainPoints[n].point))
         /\ topPainPoints[n].responses <= Len(allInsights)
         /\ topPainPoints[n].frequency.numerator
              <= 100 * topPainPoints[n].frequency.denominator
    /\ \A n \in 1..Len(topFeatureRequests) :
         /\ topFeatureRequests[n].responses =
              Cardinality(RowsMentioning("product_ideas", "idea",
                                         topFeatureRequests[n].feature))
         /\ topFeatureRequests[n].responses <= Len(allInsights)
         /\ topFeatureRequests[n].frequency.numerator
              <= 100 * topFeatureRequests[n].frequency.denominator

(***************************************************************************)
(* The projects tab after a failed fetch.                                  *)
(***************************************************************************)
\* C29: when the select of the projects that resolved last has failed and
\* no fetchData call is in flight, the projects error is set, its card is
\* shown and the "No projects yet!" card is not.
C29_FailedProjectsFetchShowsError ==
  (lastProjectsFetch = "failed" /\ fetchDataCalls = <<>>) =>
    /\ projectsError # NULL
    /\ "error" \in ProjectsTabShows
    /\ "empty" \notin ProjectsTabShows

(***************************************************************************)
(* A canceled subscription.                                                *)
(***************************************************************************)
\* C30: the status of a row that a processed customer.subscription.deleted
\* event has canceled stays 'canceled' in every step, except in the step
\* that ends a request of a checkout.session.completed event for the user
\* (or of an event that was delivered before the deletion was processed).
C30_CanceledStaysCanceled ==
  [][\A u \in canceledByDeletion :
       (subscriptions[u].status = "canceled"
          /\ subscriptions'[u].status # "canceled") =>
         \E call \in webhookCalls :
            /\ webhookCalls' = webhookCalls \ {call}
            /\ call.userId = u
            /\ (call.type = "checkout" \/ ~call.late)]_vars
====
